---------------------------- MODULE Spec2Model ----------------------------
(***************************************************************************)
(* A model of the client-side object I/O engine of noobaa-core:            *)
(*   - the content-defined chunk splitter (src/native/chunk/splitter.cpp)  *)
(*   - the upload flow and the stream byte semaphore of ObjectIO           *)
(*     (src/sdk/object_io.js)                                              *)
(* The splitter is checked under SplitSpec, the upload flow under IOSpec.  *)
(***************************************************************************)
EXTENDS Integers, Sequences, FiniteSets, TLC

VARIABLES
    \* ---- Splitter (splitter.cpp) ----
    cfg,            \* constructor arguments: min_chunk, max_chunk, avg_chunk_bits
    window_pos,     \* Splitter::_window_pos
    chunk_pos,      \* Splitter::_chunk_pos
    hash,           \* Splitter::_hash, a polynomial over GF(2): the set of its set bits
    window,         \* Splitter::_window, NB_RABIN_WINDOW_LEN bytes
    split_points,   \* Splitter::_split_points
    finished,       \* finish() was called
    stream,         \* history: every byte pushed so far, in order
    hash_cuts,      \* history: number of boundaries declared by the hash test
    carried,        \* history: a hash boundary closed a scan begun in an earlier push
    \* ---- ObjectIO (object_io.js) ----
    sem_value,      \* this._io_buffers_sem: the bytes free
    sem_wq,         \* this._io_buffers_sem: the waiting calls, first in first out
    op,             \* the calls in progress on this ObjectIO, one record each
    stress,         \* the clock, this._last_io_bottleneck_report and the STRESS reports
    reader,         \* one ObjectReadable of read_object_stream and its consumer
    pipe,           \* one upload_object call and the batches of its stream pipeline
    cache,          \* this._read_cache and the object it reads
    fan,            \* one call of read_object_with_cache
    part,           \* one call of _read_part: the chunk, its fragments and blocks
    blocks,         \* the _read_block calls and the two block-read semaphores
    report,         \* the calls of the two error reporters
    asm,            \* one call of combine_parts_buffers_in_range
    slice           \* one call of make_val of the read cache

splitVars == <<cfg, window_pos, chunk_pos, hash, window, split_points,
               finished, stream, hash_cuts, carried>>

ioVars == <<sem_value, sem_wq, op>>

vars == <<cfg, window_pos, chunk_pos, hash, window, split_points,
          finished, stream, hash_cuts, carried, sem_value, sem_wq, op,
          stress, reader, pipe, cache, fan,
          part, blocks, report, asm, slice>>

\* what the splitter and the upload calls leave alone
readVars == <<part, blocks, report, asm, slice>>

restVars == <<stress, reader, pipe, cache, fan, readVars>>

-----------------------------------------------------------------------------
(* Bounds of the model *)

\* longest buffer of arbitrary bytes handed to one push()
MaxPushLen == 3
\* the stream is at most max_chunk + MaxExtra bytes long
MaxExtra == 3
\* at most this many non-zero bytes in the stream
MaxNonZero == 2

\* calls made on one ObjectIO
NumCalls == 2
\* the clock runs for this many ticks after ObjectIO is constructed
MaxTicks == 4
\* the largest object offset a read asks for
MaxOff == 7
\* the size of the object a reader streams
ReadObjSize == 5
\* batches the coalescer hands to the uploader in one upload
MaxBatches == 2
\* parts handed to one range assembly, and the largest offset in it
MaxAsmParts == 2
MaxAsmOff == 3
\* replica blocks of each fragment
MaxReplicas == 2
\* calls of the error reporters
NumReports == 2
\* _read_block calls made on one ObjectIO
NumBlockReads == 4
\* storage nodes the blocks are on
NumNodes == 3
\* concurrent cache gets of one aligned range
NumGets == 2
\* overwrites of the object that is read
MaxOverwrites == 2
\* chunks in one batch
MaxBatchLen == 2
\* tail prefetches of one reader in flight together
MaxPrefetch == 2

\* the byte values the model pushes
Bytes == {0, 128}

\* the constructor arguments the model explores (min_chunk > 0,
\* min_chunk <= max_chunk, avg_chunk_bits >= 0)
Configs ==
    { [min_chunk |-> 2, max_chunk |-> 2, avg_chunk_bits |-> 1],
      [min_chunk |-> 2, max_chunk |-> 4, avg_chunk_bits |-> 0],
      [min_chunk |-> 2, max_chunk |-> 8, avg_chunk_bits |-> 1],
      [min_chunk |-> 3, max_chunk |-> 4, avg_chunk_bits |-> 40],
      [min_chunk |-> 1, max_chunk |-> 19, avg_chunk_bits |-> 2] }

-----------------------------------------------------------------------------
(* Helpers *)

Min2(a, b) == IF a < b THEN a ELSE b

RECURSIVE SumSeq(_)
SumSeq(s) == IF s = <<>> THEN 0 ELSE Head(s) + SumSeq(Tail(s))

NonZeroCount(s) == Cardinality({i \in DOMAIN s : s[i] # 0})

Zeros(n) == [i \in 1..n |-> 0]

\* exclusive or of two GF(2) polynomials
Xor(a, b) == (a \ b) \cup (b \ a)

\* the set bits of n, the lowest numbered i
RECURSIVE BitsFrom(_, _)
BitsFrom(n, i) ==
    IF n = 0 THEN {}
    ELSE (IF n % 2 = 1 THEN {i} ELSE {}) \cup BitsFrom(n \div 2, i + 1)

\* the bits of a byte
BitsOf(b) == BitsFrom(b, 0)

-----------------------------------------------------------------------------
(* Rabin rolling hash: static configuration of the splitter *)

NB_RABIN_POLY == 17
NB_RABIN_DEGREE == 39
NB_RABIN_WINDOW_LEN == 16

\* the low terms of the irreducible polynomial x^39 + x^4 + 1
PolyBits == BitsFrom(NB_RABIN_POLY, 0)

\* carry * (the low terms p of the polynomial)
RECURSIVE RabinReduce(_, _)
RabinReduce(carry, p) ==
    IF p = {} THEN {}
    ELSE LET k == CHOOSE k \in p : TRUE
         IN  Xor({c + k : c \in carry}, RabinReduce(carry, p \ {k}))

\* h * x^8 modulo the polynomial
RabinShift8(h) ==
    LET s == {i + 8 : i \in h}
        low == {i \in s : i < NB_RABIN_DEGREE}
        carry == {i - NB_RABIN_DEGREE : i \in {j \in s : j >= NB_RABIN_DEGREE}}
    IN  Xor(low, RabinReduce(carry, PolyBits))

RECURSIVE RabinShiftBytes(_, _)
RabinShiftBytes(h, n) == IF n = 0 THEN h ELSE RabinShiftBytes(RabinShift8(h), n - 1)

\* the contribution of the oldest byte of the window, removed before the shift
RabinByteOut == [b \in Bytes |-> RabinShiftBytes(BitsOf(b), NB_RABIN_WINDOW_LEN - 1)]

\* Rabin::update(hash, byte_in, byte_out): shift the byte leaving the window
\* out, and the next byte in
RabinUpdate(h, byte_in, byte_out) ==
    Xor(RabinShift8(Xor(h, RabinByteOut[byte_out])), BitsOf(byte_in))

-----------------------------------------------------------------------------
(* Splitter::_next_point *)

\* a scan that skips nothing
scan_min_none(total) == 0

\* const int min = total < _min_chunk ? total : _min_chunk;
scan_min(total) == IF total < cfg.min_chunk THEN total ELSE cfg.min_chunk

\* const int max = total < _max_chunk ? total : _max_chunk;
scan_max(total) == IF total < cfg.max_chunk THEN total ELSE cfg.max_chunk

\* a test of the masked hash against zero
HashMatch_zero(h) == (0..(cfg.avg_chunk_bits - 1)) \cap h = {}

\* (hash & avg_chunk_mask) == avg_chunk_val, the mask being the
\* avg_chunk_bits low bits
HashMatch(h) == (0..(cfg.avg_chunk_bits - 1)) \subseteq h

\* a skip that moves the data pointer one byte short
SkipData_short(cp, min) == IF cp < min THEN min - cp - 1 ELSE 0

\* the bytes the skip below min chunk length moves the data pointer by
SkipData(cp, min) == IF cp < min THEN min - cp ELSE 0

\* the chunk position after the skip
SkipChunkPos(cp, min) == IF cp < min THEN min ELSE cp

\* the byte by byte scan: d bytes of data are consumed so far
RECURSIVE ScanLoop(_, _, _, _, _, _, _)
ScanLoop(h, w, wp, cp, d, data, max) ==
    IF cp < max
    THEN LET byte == data[d + 1]
             h2 == RabinUpdate(h, byte, w[wp + 1])
             w2 == [w EXCEPT ![wp + 1] = byte]
             wp2 == IF wp + 1 >= NB_RABIN_WINDOW_LEN THEN 0 ELSE wp + 1
         IN  IF HashMatch(h2)
             THEN [hash |-> h2, window |-> w2, window_pos |-> wp2,
                   chunk_pos |-> cp + 1, d |-> d + 1, boundary |-> TRUE]
             ELSE ScanLoop(h2, w2, wp2, cp + 1, d + 1, data, max)
    ELSE [hash |-> h, window |-> w, window_pos |-> wp,
          chunk_pos |-> cp, d |-> d, boundary |-> FALSE]

\* a point only past max chunk length
IsPoint_past(boundary, cp) == boundary \/ cp > cfg.max_chunk

\* a point as soon as min chunk length is reached
IsPoint_min(boundary, cp) == boundary \/ cp >= cfg.min_chunk

\* if (boundary || chunk_pos >= _max_chunk)
IsPoint(boundary, cp) == boundary \/ cp >= cfg.max_chunk

\* a call that found no point and forgets the hash it computed
KeepScan_nohash(r) ==
    [window_pos |-> r.window_pos, chunk_pos |-> r.chunk_pos,
     hash |-> {}, window |-> r.window]

\* the state a call that found no point leaves behind
KeepScan(r) ==
    [window_pos |-> r.window_pos, chunk_pos |-> r.chunk_pos,
     hash |-> r.hash, window |-> r.window]

\* a point that leaves the window as it is
ResetScan_keepwindow(r) ==
    [window_pos |-> 0, chunk_pos |-> r.chunk_pos,
     hash |-> {}, window |-> r.window]

\* the state a call that found a point leaves behind
ResetScan(r) ==
    [window_pos |-> 0, chunk_pos |-> r.chunk_pos,
     hash |-> {}, window |-> Zeros(NB_RABIN_WINDOW_LEN)]

\* _next_point(&data, &len) on splitter state st: the state after, the data
\* left, the return value, and whether the hash test declared the boundary
next_point(st, data) ==
    LET total == st.chunk_pos + Len(data)
        min == scan_min(total)
        max == scan_max(total)
        r == ScanLoop(st.hash, st.window, st.window_pos,
                      SkipChunkPos(st.chunk_pos, min),
                      SkipData(st.chunk_pos, min), data, max)
    IN  IF IsPoint(r.boundary, r.chunk_pos)
        THEN [st |-> ResetScan(r), rest |-> SubSeq(data, r.d + 1, Len(data)),
              ret |-> TRUE, boundary |-> r.boundary]
        ELSE [st |-> KeepScan(r), rest |-> <<>>,
              ret |-> FALSE, boundary |-> FALSE]

\* the splitter as constructed
SplitterNew ==
    /\ window_pos = 0
    /\ chunk_pos = 0
    /\ hash = {}
    /\ window = Zeros(NB_RABIN_WINDOW_LEN)
    /\ split_points = <<>>
    /\ finished = FALSE
    /\ stream = <<>>
    /\ hash_cuts = 0
    /\ carried = FALSE

-----------------------------------------------------------------------------
(* ObjectIO: configuration, scaled down *)

IO_SEMAPHORE_CAP == 4
IO_STREAM_SEMAPHORE_SIZE_CAP == 3
IO_STREAM_MINIMAL_SIZE_LOCK == 1
\* the tail a video read prefetches (1024 bytes)
TAIL_SIZE == 1

\* a size is <<n>> for the number n and <<>> when it is not a number
\* params.size of an upload: absent, or a number below or above the caps
UploadSizes == {<<>>, <<2>>, <<5>>}
\* the size a read pull is asked for (the stream's high water mark)
ReadSizes == {<<2>>}

\* _.isNumber(size)
isNumber(size) == size # <<>>

Calls == 1..NumCalls

\* a size cap taken with Math.max
get_io_semaphore_size_max(size) ==
    IF isNumber(size)
    THEN (IF IO_STREAM_SEMAPHORE_SIZE_CAP > size[1]
          THEN IO_STREAM_SEMAPHORE_SIZE_CAP ELSE size[1])
    ELSE IO_STREAM_MINIMAL_SIZE_LOCK

\* _get_io_semaphore_size(size)
get_io_semaphore_size(size) ==
    IF isNumber(size)
    THEN Min2(IO_STREAM_SEMAPHORE_SIZE_CAP, size[1])
    ELSE IO_STREAM_MINIMAL_SIZE_LOCK

\* a semaphore built with room for one more stream
io_buffers_sem_initial_wide == IO_SEMAPHORE_CAP + IO_STREAM_SEMAPHORE_SIZE_CAP

\* new Semaphore(config.IO_SEMAPHORE_CAP, ...)
io_buffers_sem_initial == IO_SEMAPHORE_CAP

\* a call slot not used yet
NoCall ==
    [role |-> "none", pc |-> "idle", size |-> <<>>, copy |-> <<>>,
     obj_id |-> FALSE, created |-> FALSE, err |-> "none", aborts |-> 0,
     thrown |-> "none", count |-> 0, held |-> 0,
     source |-> "na", cp_from_source |-> FALSE, owner |-> 0]

\* ObjectIO as constructed
IONew ==
    /\ sem_value = io_buffers_sem_initial
    /\ sem_wq = <<>>
    /\ op = [p \in Calls |-> NoCall]

-----------------------------------------------------------------------------
(* Semaphore (util/semaphore): wait, release, timeout *)

\* wait(count) passes at once only if nobody waits and count bytes are free
SemFree(count) == sem_wq = <<>> /\ sem_value >= count

\* release: wake the waiters at the head of the queue that now fit
RECURSIVE SemWake(_, _, _)
SemWake(value, wq, woken) ==
    IF wq # <<>> /\ Head(wq).count <= value
    THEN SemWake(value - Head(wq).count, Tail(wq), woken \cup {Head(wq).p})
    ELSE [value |-> value, wq |-> wq, woken |-> woken]

\* the queue without the waiter p
SemRemove(wq, p) == SelectSeq(wq, LAMBDA w : w.p # p)

InQueue(p) == \E i \in DOMAIN sem_wq : sem_wq[i].p = p

\* surround_count(count, func) called by p: wait(count), then func
SurroundCall(p, rec, count) ==
    IF SemFree(count)
    THEN /\ sem_value' = sem_value - count
         /\ sem_wq' = sem_wq
         /\ op' = [op EXCEPT ![p] = [rec EXCEPT !.pc = "surrounded",
                                                !.count = count,
                                                !.held = count]]
    ELSE /\ sem_value' = sem_value
         /\ sem_wq' = Append(sem_wq, [p |-> p, count |-> count])
         /\ op' = [op EXCEPT ![p] = [rec EXCEPT !.pc = "sem_wait",
                                                !.count = count]]

\* surround_count: func of p ended and p becomes rec; release(count)
SurroundEnd(p, rec) ==
    LET w == SemWake(sem_value + op[p].count, sem_wq, {})
    IN  /\ sem_value' = w.value
        /\ sem_wq' = w.wq
        /\ op' = [q \in Calls |->
                    IF q = p THEN [rec EXCEPT !.held = 0]
                    ELSE IF q \in w.woken
                         THEN [op[q] EXCEPT !.pc = "surrounded",
                                            !.held = op[q].count]
                         ELSE op[q]]

-----------------------------------------------------------------------------
(* ObjectIO.upload_object, upload_multipart *)

\* upload_multipart's catch with an abort like upload_object's
multipart_catch_abort(has_obj_id) == IF has_obj_id THEN "abort" ELSE "throw"

\* upload_object: catch (err) { if (params.obj_id) { abort } throw err }
object_catch(has_obj_id) == IF has_obj_id THEN "abort" ELSE "throw"

\* upload_multipart: catch (err) { throw err }
multipart_catch(has_obj_id) == "throw"

\* the parameters of a call that nothing reads any more are dropped
Past(rec) ==
    [rec EXCEPT !.size = <<>>, !.copy = <<>>, !.count = 0, !.source = "na",
                !.owner = 0]

\* _upload_copy streams a copy only when the source has ranges
copy_is_streamed_ranges_only(bucket_differs, ranges) == ranges

\* _upload_copy: if (bucket !== params.bucket || ranges)
copy_is_streamed(bucket_differs, ranges) == bucket_differs \/ ranges

\* params.copy_source: absent (<<>>), or a source in the target's bucket or
\* in another one, with or without ranges
CopySources ==
    {<<>>} \cup {<<[bucket_differs |-> b, ranges |-> r]>> : b, r \in BOOLEAN}

\* the call, being rec, fails with error e: enter the catch block, which
\* either sends the abort RPC or throws e at once
Failed(rec, e) ==
    LET next == IF rec.role = "upload_object"
                THEN object_catch(rec.obj_id)
                ELSE multipart_catch(rec.obj_id)
        gone == [Past(rec) EXCEPT !.cp_from_source = FALSE]
    IN  IF next = "abort"
        THEN [gone EXCEPT !.err = e, !.aborts = @ + 1, !.pc = "abort"]
        ELSE [gone EXCEPT !.err = e, !.thrown = e, !.pc = "done"]

\* after the create RPC: _upload_copy or _upload_stream
AfterCreate(rec) ==
    IF rec.copy = <<>>
    THEN [rec EXCEPT !.pc = "upload_stream", !.source = "params"]
    ELSE IF copy_is_streamed(rec.copy[1].bucket_differs, rec.copy[1].ranges)
    THEN [rec EXCEPT !.pc = "upload_stream", !.copy = <<>>,
                     !.source = "read_object_stream"]
    ELSE [Past(rec) EXCEPT !.pc = "read_mappings"]

\* the next call made on this ObjectIO is the lowest unused slot
NextCall(p) ==
    /\ op[p].role = "none"
    /\ \A q \in Calls : q < p => op[q].role # "none"

\* upload_object(params) or upload_multipart(params) is called.
\* has_obj_id: params.obj_id is set by the caller (always for a multipart);
\* copy: params.copy_source
UploadCall(p, role, size, copy, has_obj_id) ==
    /\ NextCall(p)
    /\ role = "upload_multipart" => has_obj_id
    /\ op' = [op EXCEPT ![p] = [NoCall EXCEPT !.role = role, !.pc = "create",
                                              !.size = size, !.copy = copy,
                                              !.obj_id = has_obj_id]]
    /\ UNCHANGED <<sem_value, sem_wq>>
    /\ UNCHANGED <<splitVars, restVars>>

\* create_object_upload / create_multipart replies or fails
CreateReply(p, ok) ==
    /\ op[p].pc = "create"
    /\ op' = [op EXCEPT ![p] =
                IF ok
                THEN AfterCreate([@ EXCEPT !.created = TRUE,
                                           !.obj_id = (@ \/ op[p].role = "upload_object")])
                ELSE Failed(@, "CREATE_FAILED")]
    /\ UNCHANGED <<sem_value, sem_wq>>
    /\ UNCHANGED <<splitVars, restVars>>

\* _upload_copy, same bucket and no ranges: read_object_mappings replies
\* and complete_params takes the size, part count, md5, sha256 and etag of
\* the source, or it fails
MappingsReply(p, ok) ==
    /\ op[p].pc = "read_mappings"
    /\ op' = [op EXCEPT ![p] =
                IF ok THEN [@ EXCEPT !.pc = "finalize", !.cp_from_source = TRUE]
                ELSE Failed(@, "MAPPINGS_FAILED")]
    /\ UNCHANGED <<sem_value, sem_wq>>
    /\ UNCHANGED <<splitVars, restVars>>

\* _upload_copy: finalize_object_parts
FinalizeReply(p, ok) ==
    /\ op[p].pc = "finalize"
    /\ op' = [op EXCEPT ![p] =
                IF ok THEN [@ EXCEPT !.pc = "complete"]
                ELSE Failed(@, "FINALIZE_FAILED")]
    /\ UNCHANGED <<sem_value, sem_wq>>
    /\ UNCHANGED <<splitVars, restVars>>

\* _upload_stream: surround_count(_get_io_semaphore_size(params.size), ...)
UploadStream(p) ==
    /\ op[p].pc = "upload_stream"
    /\ SurroundCall(p, op[p], get_io_semaphore_size(op[p].size))
    /\ UNCHANGED <<splitVars, restVars>>

\* _upload_stream_internal ends: the pipeline promise resolves or rejects
PipelineEnd(p, ok) ==
    /\ op[p].role \in {"upload_object", "upload_multipart"}
    /\ op[p].pc = "surrounded"
    /\ SurroundEnd(p, IF ok THEN [Past(op[p]) EXCEPT !.pc = "complete"]
                      ELSE Failed(op[p], "PIPELINE_FAILED"))
    /\ UNCHANGED <<splitVars, restVars>>

\* the wait of p on the byte semaphore times out: _handle_semaphore_errors
\* throws OBJECT_IO_STREAM_ITEM_TIMEOUT
SemTimeout(p) ==
    /\ op[p].pc = "sem_wait"
    /\ InQueue(p)
    /\ sem_wq' = SemRemove(sem_wq, p)
    /\ sem_value' = sem_value
    /\ op' = [op EXCEPT ![p] =
                IF @.role \in {"upload_object", "upload_multipart"}
                THEN Failed(@, "OBJECT_IO_STREAM_ITEM_TIMEOUT")
                ELSE [Past(@) EXCEPT !.err = "OBJECT_IO_STREAM_ITEM_TIMEOUT",
                                     !.pc = "done"]]
    /\ UNCHANGED <<splitVars, restVars>>

\* complete_object_upload / complete_multipart replies or fails
CompleteReply(p, ok) ==
    /\ op[p].pc = "complete"
    /\ op' = [op EXCEPT ![p] =
                IF ok THEN [@ EXCEPT !.pc = "done", !.cp_from_source = FALSE]
                ELSE Failed(@, "COMPLETE_FAILED")]
    /\ UNCHANGED <<sem_value, sem_wq>>
    /\ UNCHANGED <<splitVars, restVars>>

\* abort_object_upload replies or fails (err2 is only logged); throw err
AbortReply(p, ok) ==
    /\ op[p].pc = "abort"
    /\ op' = [op EXCEPT ![p] = [@ EXCEPT !.thrown = op[p].err,
                                         !.pc = "done"]]
    /\ UNCHANGED <<sem_value, sem_wq>>
    /\ UNCHANGED <<splitVars, restVars>>

-----------------------------------------------------------------------------
(* ObjectIO.read_object_stream: the reservations of a reader's pull *)

\* a pull of a reader: surround_count(_get_io_semaphore_size(requested_size), ...)
ReadPull(p, requested_size) ==
    /\ NextCall(p)
    /\ SurroundCall(p, [NoCall EXCEPT !.role = "read", !.size = requested_size],
                    get_io_semaphore_size(requested_size))
    /\ UNCHANGED <<splitVars, restVars>>

\* the upload q reads its source through read_object_stream and its
\* pipeline is running
StreamsCopy(q) ==
    /\ op[q].role \in {"upload_object", "upload_multipart"}
    /\ op[q].pc = "surrounded"
    /\ op[q].source = "read_object_stream"

\* the pull of the source reader of q that is waiting or running
SourcePulls(q) ==
    {r \in Calls : /\ op[r].role = "read"
                   /\ op[r].owner = q
                   /\ op[r].pc \in {"sem_wait", "surrounded"}}

\* the pipeline of the streamed copy q pulls its source reader, which has
\* no pull outstanding: the pull asks the byte semaphore for its own
\* reservation while the copy holds that of _upload_stream
SourcePull(p, q, requested_size) ==
    /\ NextCall(p)
    /\ StreamsCopy(q)
    /\ SourcePulls(q) = {}
    /\ SurroundCall(p, [NoCall EXCEPT !.role = "read", !.size = requested_size,
                                      !.owner = q],
                    get_io_semaphore_size(requested_size))
    /\ UNCHANGED <<splitVars, restVars>>

\* the tail prefetch of a video read: surround_count(_get_io_semaphore_size(1024), ...)
TailPrefetch(p) ==
    /\ NextCall(p)
    /\ SurroundCall(p, [NoCall EXCEPT !.role = "prefetch", !.size = <<TAIL_SIZE>>],
                    get_io_semaphore_size(<<TAIL_SIZE>>))
    /\ UNCHANGED <<splitVars, restVars>>

\* read_object_with_cache of a pull or of a prefetch resolves or rejects
ReadEnd(p, ok) ==
    /\ op[p].role \in {"read", "prefetch"}
    /\ op[p].pc = "surrounded"
    /\ SurroundEnd(p, [Past(op[p]) EXCEPT
                            !.pc = "done",
                            !.err = IF ok THEN "none" ELSE "READ_FAILED"])
    /\ UNCHANGED <<splitVars, restVars>>


-----------------------------------------------------------------------------
(* Splitter::push *)

\* while (_next_point(&data, &len)) { push_back(_chunk_pos); _chunk_pos = 0; }
\* calls counts the calls of _next_point made so far by this push
RECURSIVE push_loop(_, _, _, _, _, _)
push_loop(st, points, data, cuts, carry, calls) ==
    LET r == next_point(st, data)
    IN  IF r.ret
        THEN push_loop([r.st EXCEPT !.chunk_pos = 0],
                       Append(points, r.st.chunk_pos), r.rest,
                       IF r.boundary THEN cuts + 1 ELSE cuts,
                       carry \/ (r.boundary /\ calls = 0
                                   /\ st.chunk_pos > cfg.min_chunk),
                       calls + 1)
        ELSE [st |-> r.st, points |-> points, cuts |-> cuts, carry |-> carry]

SplitterState ==
    [window_pos |-> window_pos, chunk_pos |-> chunk_pos,
     hash |-> hash, window |-> window]

\* the buffers one push() may be handed
PushData ==
    LET room == cfg.max_chunk + MaxExtra - Len(stream)
        left == MaxNonZero - NonZeroCount(stream)
    IN  { s \in UNION {[1..n -> Bytes] : n \in 0..Min2(MaxPushLen, room)} :
              NonZeroCount(s) <= left }
        \cup { Zeros(n) : n \in 0..room }

Push(data) ==
    /\ ~finished
    /\ LET r == push_loop(SplitterState, split_points, data, hash_cuts, carried, 0)
       IN  /\ window_pos' = r.st.window_pos
           /\ chunk_pos' = r.st.chunk_pos
           /\ hash' = r.st.hash
           /\ window' = r.st.window
           /\ split_points' = r.points
           /\ hash_cuts' = r.cuts
           /\ carried' = r.carry
    /\ stream' = stream \o data
    /\ UNCHANGED <<cfg, finished>>
    /\ UNCHANGED <<ioVars, restVars>>

\* a finish that flushes the residual as a last split point
finish_points_flush(points, pos) ==
    IF pos > 0 THEN Append(points, pos) ELSE points

\* the split points after finish(): it has no statement on _split_points
finish_points(points, pos) == points

\* Splitter::finish: finalizes the digests, touches nothing else
Finish ==
    /\ ~finished
    /\ finished' = TRUE
    /\ split_points' = finish_points(split_points, chunk_pos)
    /\ UNCHANGED <<cfg, window_pos, chunk_pos, hash, window,
                   stream, hash_cuts, carried>>
    /\ UNCHANGED <<ioVars, restVars>>


-----------------------------------------------------------------------------
(* ObjectIO._handle_semaphore_errors: the STRESS report *)

\* one hour, in ticks of the clock
HOUR_IN_MILI == 2

\* the callers of _handle_semaphore_errors
StressSources == {"upload", "read", "prefetch"}
\* err.code of the error handed to it
StressCodes == {"OBJECT_IO_STREAM_ITEM_TIMEOUT", "OTHER"}

\* Date.now() when ObjectIO is constructed is far more than an hour
StartTimes == {HOUR_IN_MILI, HOUR_IN_MILI + 1}

\* a report with every timeout
report_due_always(curr_date, last_report) == TRUE

\* curr_date - this._last_io_bottleneck_report >= HOUR_IN_MILI
report_due(curr_date, last_report) == curr_date - last_report >= HOUR_IN_MILI

StressNew ==
    stress = [now |-> HOUR_IN_MILI, last_report |-> 0, reports |-> <<>>,
              in_flight |-> 0, report_failed |-> FALSE, unhandled |-> FALSE,
              last |-> <<>>]

othersOfStress == <<splitVars, ioVars, reader, pipe, cache, fan, readVars>>

\* time passes
Tick ==
    /\ stress.now < HOUR_IN_MILI + MaxTicks
    /\ stress' = [stress EXCEPT !.now = @ + 1]
    /\ UNCHANGED othersOfStress

\* _handle_semaphore_errors(client, err), called from the catch of source.
\* last remembers the call: when, the reports sent before it, whether it
\* sent a report and what it threw
HandleSemaphoreErrors(source, code) ==
    LET timeout == code = "OBJECT_IO_STREAM_ITEM_TIMEOUT"
        due == timeout /\ report_due(stress.now, stress.last_report)
    IN  /\ stress' = [stress EXCEPT
                !.last_report = IF due THEN stress.now ELSE @,
                !.reports = IF due THEN Append(@, stress.now) ELSE @,
                !.in_flight = IF due THEN @ + 1 ELSE @,
                !.last = <<[source |-> source, code |-> code,
                            at |-> stress.now,
                            before |-> stress.reports,
                            reported |-> due,
                            thrown |-> IF timeout
                                       THEN "OBJECT_IO_STREAM_ITEM_TIMEOUT"
                                       ELSE "none"]>>]
        /\ UNCHANGED othersOfStress

\* report_endpoint_problems(...).catch(error => dbg.error(...))
report_rejection_caught == TRUE

\* report_endpoint_problems replies or fails; a failure not caught would
\* be an unhandled rejection
ReportReply(ok) ==
    /\ stress.in_flight > 0
    /\ stress' = [stress EXCEPT !.in_flight = @ - 1,
                                !.report_failed = @ \/ ~ok,
                                !.unhandled = @ \/ (~ok /\ ~report_rejection_caught)]
    /\ UNCHANGED othersOfStress

-----------------------------------------------------------------------------
(* ObjectIO.read_object_with_cache *)

\* configuration, scaled down
IO_OBJECT_RANGE_ALIGN == 2
IO_READ_RANGE_CONCURRENCY == 2

\* range_utils.align_down, range_utils.align_up
align_down(x, a) == (x \div a) * a
align_up(x, a) == ((x + a - 1) \div a) * a

\* a sub-range that runs a whole alignment past pos
fan_range_end_unaligned(pos, end) == Min2(end, pos + IO_OBJECT_RANGE_ALIGN)

\* range.end = Math.min(params.end, align_up(pos + 1, ALIGN))
fan_range_end(pos, end) == Min2(end, align_up(pos + 1, IO_OBJECT_RANGE_ALIGN))

\* the while loop: the sub-ranges handed to this._read_cache.get_with_cache
RECURSIVE FanLoop(_, _, _)
FanLoop(pos, end, promises) ==
    IF pos < end /\ Len(promises) < IO_READ_RANGE_CONCURRENCY
    THEN FanLoop(fan_range_end(pos, end), end,
                 Append(promises, [start |-> pos, end |-> fan_range_end(pos, end)]))
    ELSE promises

FanRanges(start, end) == IF end <= start THEN <<>> ELSE FanLoop(start, end, <<>>)

FanIdle ==
    [pc |-> "idle", start |-> 0, end |-> 0, ranges |-> <<>>, replies |-> <<>>,
     result |-> "none", returned |-> <<>>]

FanNew == fan = FanIdle

othersOfFan == <<splitVars, ioVars, stress, reader, pipe, cache, readVars>>

\* read_object_with_cache(params) is called
FanCall(start, end, has_obj_id) ==
    /\ fan.pc = "idle"
    /\ fan' = IF ~has_obj_id
              THEN [FanIdle EXCEPT !.pc = "done", !.start = start, !.end = end,
                                   !.result = "error"]
              ELSE IF end <= start
              THEN [FanIdle EXCEPT !.pc = "done", !.start = start, !.end = end,
                                   !.result = "null"]
              ELSE [FanIdle EXCEPT !.pc = "waiting", !.start = start, !.end = end,
                                   !.ranges = FanRanges(start, end),
                                   !.replies = [i \in DOMAIN FanRanges(start, end) |-> "none"]]
    /\ UNCHANGED othersOfFan

\* one get_with_cache settles: a buffer, a null or empty buffer, or a failure
FanGetReply(i, outcome) ==
    /\ fan.pc = "waiting"
    /\ i \in DOMAIN fan.replies
    /\ fan.replies[i] = "none"
    /\ fan' = [fan EXCEPT !.replies[i] = outcome]
    /\ UNCHANGED othersOfFan

\* Promise.all settles: it rejects with the first failure, or resolves when
\* every get has; _.filter keeps the buffers that have bytes
FanReturn ==
    /\ fan.pc = "waiting"
    /\ \/ \E i \in DOMAIN fan.replies : fan.replies[i] = "fail"
       \/ \A i \in DOMAIN fan.replies : fan.replies[i] # "none"
    /\ fan' = IF \E i \in DOMAIN fan.replies : fan.replies[i] = "fail"
              THEN [fan EXCEPT !.pc = "done", !.result = "error"]
              ELSE [fan EXCEPT !.pc = "done", !.result = "buffers",
                               !.returned = SelectSeq(fan.ranges,
                                    LAMBDA r : \E i \in DOMAIN fan.ranges :
                                        fan.ranges[i] = r /\ fan.replies[i] = "data")]
    /\ UNCHANGED othersOfFan

\* the caller takes the result; the next call may come
FanDone ==
    /\ fan.pc = "done"
    /\ fan' = FanIdle
    /\ UNCHANGED othersOfFan

-----------------------------------------------------------------------------
(* ObjectIO.read_object_stream: one ObjectReadable *)

\* the size _read is called with
PullSizes == {1, 3}
\* params.start, and params.end (<<>> when undefined: reader.end is Infinity)
ReadStarts == {0, 1}
ReadEnds == {<<>>, <<4>>}

\* reader.push(reader.pending.pop()): the newest buffer first
pending_pop(pending) ==
    [buf |-> pending[Len(pending)], rest |-> SubSeq(pending, 1, Len(pending) - 1)]

\* reader.push(reader.pending.shift())
pending_shift(pending) == [buf |-> Head(pending), rest |-> Tail(pending)]

\* an error handler that throws whatever the error
handler_throws_always(code) == TRUE

\* _handle_semaphore_errors(client, err) throws when err.code is the timeout
handler_throws(code) == code = "OBJECT_IO_STREAM_ITEM_TIMEOUT"

\* Math.min(reader.end, reader.pos + requested_size)
requested_end(rec, requested_size) ==
    IF rec.end = <<>> THEN rec.pos + requested_size
    ELSE Min2(rec.end[1], rec.pos + requested_size)

\* the buffers read_object_with_cache resolves with for [start, end): one
\* per dispatched sub-range, cut at the end of the object, empty ones
\* filtered out
RangeBuffers(start, end) ==
    LET cut(r) == [off |-> r.start,
                   len |-> IF Min2(r.end, ReadObjSize) > r.start
                           THEN Min2(r.end, ReadObjSize) - r.start ELSE 0]
        all == [i \in DOMAIN FanRanges(start, end) |-> cut(FanRanges(start, end)[i])]
    IN  SelectSeq(all, LAMBDA b : b.len > 0)

RECURSIVE TotalLen(_)
TotalLen(bufs) == IF bufs = <<>> THEN 0 ELSE Head(bufs).len + TotalLen(Tail(bufs))

\* new ObjectReadable(params, read)
ReaderOf(start, end, video) ==
    [start |-> start, end |-> end, video |-> video,
     pos |-> start, pending |-> <<>>, closed |-> FALSE,
     closed_pending |-> <<>>,
     pc |-> "idle", req |-> <<>>,
     reading |-> FALSE, ended |-> FALSE, pushed |-> <<>>, errors |-> <<>>,
     pf_delay |-> 0, pf_wait |-> 0, pf_read |-> 0,
     pulls |-> 0, failures |-> 0, timeouts |-> 0, unhandled |-> 0,
     push_after_error |-> FALSE, read_after_error |-> FALSE,
     prefetch_after_error |-> FALSE]

ReaderNew == reader = ReaderOf(0, <<>>, FALSE)

othersOfReader == <<splitVars, ioVars, stress, pipe, cache, fan, readVars>>

\* stream.Readable: push(buf) hands a buffer to the consumer and lets the
\* next _read come
ReaderPush(rec, buf) ==
    [rec EXCEPT !.pushed = Append(@, buf), !.reading = FALSE,
                !.push_after_error = @ \/ rec.errors # <<>>]

\* stream.Readable: push(null) ends the stream
ReaderPushNull(rec) == [rec EXCEPT !.ended = TRUE, !.reading = FALSE]

\* a _read that never looks at reader.closed
pull_closed_never(rec) == FALSE

\* if (reader.closed)
pull_closed(rec) == rec.closed

\* the tail prefetch is dispatched by this pull
PrefetchDue(rec, low_load) == rec.start = 0 /\ rec.video /\ low_load

\* the stream calls _read(requested_size): it does so only when no _read is
\* outstanding and the stream has not ended.
\* low_load: _io_buffers_sem.waiting_time is below the prefetch load cap
Pull(requested_size, low_load) ==
    /\ ~reader.reading
    /\ ~reader.ended
    /\ low_load => reader.pf_delay + reader.pf_wait + reader.pf_read < MaxPrefetch
    /\ LET rec == [reader EXCEPT !.reading = TRUE, !.pulls = @ + 1]
       IN  reader' =
            IF pull_closed(rec) THEN ReaderPushNull(rec)
            ELSE IF rec.pending # <<>>
            THEN ReaderPush([rec EXCEPT !.pending = pending_shift(rec.pending).rest],
                            pending_shift(rec.pending).buf)
            ELSE [rec EXCEPT
                    !.pc = "sem_wait",
                    !.req = <<[start |-> rec.pos,
                               end |-> requested_end(rec, requested_size)]>>,
                    !.pf_delay = IF PrefetchDue(rec, low_load) THEN @ + 1 ELSE @]
    /\ UNCHANGED othersOfReader

\* reader.close(); closed_pending keeps what reader.pending held then
Close ==
    /\ ~reader.closed
    /\ reader' = [reader EXCEPT !.closed = TRUE,
                                !.closed_pending = reader.pending]
    /\ UNCHANGED othersOfReader

\* the byte semaphore admits the pull: read_object_with_cache starts
PullAdmit ==
    /\ reader.pc = "sem_wait"
    /\ reader' = [reader EXCEPT !.pc = "reading",
                                !.read_after_error = @ \/ reader.errors # <<>>]
    /\ UNCHANGED othersOfReader

\* the .catch of the pull, with the error code: _handle_semaphore_errors
\* runs first, and reader.emit('error') only if it did not throw
PullCatch(rec, code) ==
    IF handler_throws(code)
    THEN [rec EXCEPT !.pc = "idle", !.req = <<>>, !.unhandled = @ + 1]
    ELSE [rec EXCEPT !.pc = "idle", !.req = <<>>, !.errors = Append(@, code)]

\* the wait of the pull on the byte semaphore times out
PullTimeout ==
    /\ reader.pc = "sem_wait"
    /\ reader' = PullCatch([reader EXCEPT !.timeouts = @ + 1],
                           "OBJECT_IO_STREAM_ITEM_TIMEOUT")
    /\ UNCHANGED othersOfReader

\* read_object_with_cache of the pull resolves with its buffers, or rejects
PullReadEnd(ok) ==
    /\ reader.pc = "reading"
    /\ LET bufs == RangeBuffers(reader.req[1].start, reader.req[1].end)
           rec == [reader EXCEPT !.pc = "idle", !.req = <<>>]
       IN  reader' =
            IF ~ok THEN PullCatch([reader EXCEPT !.failures = @ + 1], "READ_FAILED")
            ELSE IF bufs # <<>>
            THEN ReaderPush([rec EXCEPT !.pos = @ + TotalLen(bufs),
                                        !.pending = pending_shift(bufs).rest],
                            pending_shift(bufs).buf)
            ELSE ReaderPushNull(rec)
    /\ UNCHANGED othersOfReader

\* P.delay(10) of a tail prefetch is over: it waits for the byte semaphore
PrefetchDelayEnd ==
    /\ reader.pf_delay > 0
    /\ reader' = [reader EXCEPT !.pf_delay = @ - 1, !.pf_wait = @ + 1]
    /\ UNCHANGED othersOfReader

\* the byte semaphore admits a tail prefetch: read_object_with_cache starts
PrefetchAdmit ==
    /\ reader.pf_wait > 0
    /\ reader' = [reader EXCEPT !.pf_wait = @ - 1, !.pf_read = @ + 1,
                                !.prefetch_after_error = @ \/ reader.errors # <<>>]
    /\ UNCHANGED othersOfReader

\* the wait of a tail prefetch times out: its .catch calls
\* _handle_semaphore_errors, which throws
PrefetchTimeout ==
    /\ reader.pf_wait > 0
    /\ reader' = [reader EXCEPT
                    !.pf_wait = @ - 1,
                    !.unhandled = IF handler_throws("OBJECT_IO_STREAM_ITEM_TIMEOUT")
                                  THEN @ + 1 ELSE @]
    /\ UNCHANGED othersOfReader

\* read_object_with_cache of a tail prefetch resolves or rejects: a
\* rejection is only logged
PrefetchReadEnd(ok) ==
    /\ reader.pf_read > 0
    /\ reader' = [reader EXCEPT !.pf_read = @ - 1]
    /\ UNCHANGED othersOfReader

-----------------------------------------------------------------------------
(* ObjectIO._upload_stream_internal, _upload_chunks: the uploader stage *)

\* chunk sizes the coder emits
ChunkSizes == {1, 2}

\* the batches of chunks the coalescer can emit: sequences of chunk sizes
Batches == UNION {[1..n -> ChunkSizes] : n \in 1..MaxBatchLen}

\* a part that ends one byte late
part_of_long(start, seq, size) ==
    [start |-> start, end |-> start + size + 1, seq |-> seq, size |-> size]

\* const part = { start: params.start, end: params.start + chunk_info.size,
\*                seq: params.seq }
part_of(start, seq, size) ==
    [start |-> start, end |-> start + size, seq |-> seq, size |-> size]

\* chunks.map(...): the parts of one batch, from params.start and params.seq
RECURSIVE MapChunks(_, _, _)
MapChunks(chunks, start, seq) ==
    IF chunks = <<>> THEN <<>>
    ELSE <<part_of(start, seq, Head(chunks))>>
            \o MapChunks(Tail(chunks), start + Head(chunks), seq + 1)

\* counters that count a chunk as one byte
count_chunk_as_one(c, size) ==
    [start |-> c.start + size, seq |-> c.seq + 1,
     size |-> c.size + 1, num_parts |-> c.num_parts + 1]

\* params.seq += 1; params.start += chunk.size;
\* complete_params.size += chunk.size; complete_params.num_parts += 1
count_chunk(c, size) ==
    [start |-> c.start + size, seq |-> c.seq + 1,
     size |-> c.size + size, num_parts |-> c.num_parts + 1]

\* chunks.map(...): the counters after every chunk of the batch was mapped
RECURSIVE CountChunks(_, _)
CountChunks(c, chunks) ==
    IF chunks = <<>> THEN c
    ELSE CountChunks(count_chunk(c, Head(chunks)), Tail(chunks))

\* a callback that does not wait for the map client
callback_after_run_never == FALSE

\* await mc.run() comes before callback()
callback_after_run == TRUE

\* a batch that fails only when the map client throws
batch_failed_throw_only(outcome) == outcome = "throws"

\* mc.run() threw, or mc.had_errors
batch_failed(outcome) == outcome \in {"throws", "had_errors"}

\* upload_object after create_object_upload succeeded and the byte
\* semaphore admitted the stream: _upload_stream_internal begins
PipeStart ==
    [pc |-> "pipeline", src_ended |-> FALSE, emitted |-> 0, queue |-> <<>>,
     busy |-> FALSE, running |-> {},
     start |-> 0, seq |-> 0, cp_size |-> 0, cp_num_parts |-> 0,
     parts |-> <<>>, total |-> 0, started |-> <<>>, callbacks |-> <<>>,
     finalized |-> <<>>, failed |-> <<>>,
     errored |-> FALSE, promise |-> "pending",
     complete_called |-> FALSE, aborts |-> 0, thrown |-> "none"]

PipeNew == pipe = PipeStart

othersOfPipe == <<splitVars, ioVars, stress, reader, cache, fan, readVars>>

\* the coalescer writes its next batch to the uploader
PipeEmit(chunks) ==
    /\ pipe.pc = "pipeline"
    /\ pipe.promise = "pending"
    /\ ~pipe.src_ended
    /\ ~pipe.errored
    /\ pipe.emitted < MaxBatches
    /\ pipe' = [pipe EXCEPT !.emitted = @ + 1,
                            !.queue = Append(@, [id |-> pipe.emitted + 1,
                                                 chunks |-> chunks])]
    /\ UNCHANGED othersOfPipe

\* the source stream ends: nothing more will be emitted
PipeSourceEnd ==
    /\ pipe.pc = "pipeline"
    /\ ~pipe.src_ended
    /\ ~pipe.errored
    /\ pipe' = [pipe EXCEPT !.src_ended = TRUE]
    /\ UNCHANGED othersOfPipe

\* the uploader takes the next batch: stream.Transform calls transform only
\* when the callback of the batch before was invoked and no error was
\* raised. _upload_chunks builds the parts, advances params.start and
\* params.seq and the counters of complete_params, and starts the map client
UploadChunksStart ==
    /\ pipe.pc = "pipeline"
    /\ pipe.queue # <<>>
    /\ ~pipe.busy
    /\ ~pipe.errored
    /\ LET b == Head(pipe.queue)
           parts == MapChunks(b.chunks, pipe.start, pipe.seq)
           size == SumSeq(b.chunks)
           c == CountChunks([start |-> pipe.start, seq |-> pipe.seq,
                             size |-> pipe.cp_size,
                             num_parts |-> pipe.cp_num_parts], b.chunks)
       IN  pipe' = [pipe EXCEPT
                !.queue = Tail(@),
                !.busy = callback_after_run,
                !.callbacks = IF callback_after_run THEN @
                              ELSE Append(@, [id |-> b.id, err |-> FALSE]),
                !.running = @ \cup {b.id},
                !.started = Append(@, b.id),
                !.parts = @ \o parts,
                !.total = @ + size,
                !.start = c.start,
                !.seq = c.seq,
                !.cp_size = c.size,
                !.cp_num_parts = c.num_parts]
    /\ UNCHANGED othersOfPipe

\* the map client of batch id ends: mc.run() resolves with or without
\* had_errors, or throws; then callback() or callback(err)
MapClientEnd(id, outcome) ==
    /\ id \in pipe.running
    /\ LET bad == batch_failed(outcome)
       IN  pipe' = [pipe EXCEPT
                !.running = @ \ {id},
                !.finalized = IF outcome = "ok" THEN Append(@, id) ELSE @,
                !.failed = IF outcome # "ok" THEN Append(@, id) ELSE @,
                !.busy = IF callback_after_run THEN FALSE ELSE @,
                !.callbacks = IF callback_after_run
                              THEN Append(@, [id |-> id, err |-> bad])
                              ELSE @,
                !.errored = @ \/ (callback_after_run /\ bad)]
    /\ UNCHANGED othersOfPipe

\* pipeline.promise() resolves: the source ended and every batch went
\* through; _upload_stream returns
PipeResolve ==
    /\ pipe.pc = "pipeline"
    /\ pipe.promise = "pending"
    /\ pipe.src_ended /\ pipe.queue = <<>> /\ ~pipe.busy /\ ~pipe.errored
    /\ pipe' = [pipe EXCEPT !.promise = "resolved", !.pc = "complete",
                            !.complete_called = TRUE]
    /\ UNCHANGED othersOfPipe

\* pipeline.promise() rejects with the error of the uploader; _upload_stream
\* rethrows and upload_object enters its catch block
PipeReject ==
    /\ pipe.pc = "pipeline"
    /\ pipe.promise = "pending"
    /\ pipe.errored
    /\ pipe' = IF object_catch(TRUE) = "abort"
               THEN [pipe EXCEPT !.promise = "rejected", !.pc = "abort",
                                 !.aborts = @ + 1]
               ELSE [pipe EXCEPT !.promise = "rejected", !.pc = "done",
                                 !.thrown = "UPLOAD_MAP_ERRORS"]
    /\ UNCHANGED othersOfPipe

\* complete_object_upload replies or fails
PipeCompleteReply(ok) ==
    /\ pipe.pc = "complete"
    /\ pipe' = IF ok THEN [pipe EXCEPT !.pc = "done"]
               ELSE IF object_catch(TRUE) = "abort"
               THEN [pipe EXCEPT !.pc = "abort", !.aborts = @ + 1]
               ELSE [pipe EXCEPT !.pc = "done", !.thrown = "COMPLETE_FAILED"]
    /\ UNCHANGED othersOfPipe

\* abort_object_upload replies or fails; the first error is thrown
PipeAbortReply(ok) ==
    /\ pipe.pc = "abort"
    /\ pipe' = [pipe EXCEPT !.pc = "done",
                            !.thrown = IF pipe.errored THEN "UPLOAD_MAP_ERRORS"
                                       ELSE "COMPLETE_FAILED"]
    /\ UNCHANGED othersOfPipe

-----------------------------------------------------------------------------
(* ObjectIO._report_error_on_object_read, _report_error_on_object_upload *)

Reports == 1..NumReports

\* the errors a block read or write fails with, and the error the
\* report_error_on_object RPC fails with
BlockErrors == {"TAMPERING", "BLOCK_FAILED"}
ReportingError == "REPORT_FAILED"

\* a read reporter that lets the error of a failed report through
report_read_settled_masked(err, rpc_ok) ==
    [rejected |-> TRUE, err |-> IF rpc_ok THEN err ELSE ReportingError]

\* _report_error_on_object_read: .catch drops the reporting error and
\* .finally throws err
report_read_settled(err, rpc_ok) == [rejected |-> TRUE, err |-> err]

\* _report_error_on_object_upload: the try/catch around the awaited RPC
\* drops the reporting error and the function returns
report_upload_settled(err, rpc_ok) == [rejected |-> FALSE, err |-> "none"]

ReportIdle == [kind |-> "none", pc |-> "idle", err |-> "none",
               rpc_ok |-> TRUE, settled |-> [rejected |-> FALSE, err |-> "none"]]

ReportNew == report = [c \in Reports |-> ReportIdle]

othersOfReport == <<splitVars, ioVars, stress, reader, pipe, cache, fan,
                    part, blocks, asm, slice>>

\* a reporter is called with the error of the block: it sends
\* report_error_on_object
ReportCall(c, kind, err) ==
    /\ report[c].pc = "idle"
    /\ report' = [report EXCEPT ![c] = [ReportIdle EXCEPT !.kind = kind,
                                                            !.pc = "rpc",
                                                            !.err = err]]
    /\ UNCHANGED othersOfReport

\* report_error_on_object replies or fails, and the reporter settles
ReportRpcEnd(c, rpc_ok) ==
    /\ report[c].pc = "rpc"
    /\ report' = [report EXCEPT
            ![c].pc = "settled",
            ![c].rpc_ok = rpc_ok,
            ![c].settled = IF report[c].kind = "read"
                           THEN report_read_settled(report[c].err, rpc_ok)
                           ELSE report_upload_settled(report[c].err, rpc_ok)]
    /\ UNCHANGED othersOfReport

\* the caller has taken the outcome
ReportTaken(c) ==
    /\ report[c].pc = "settled"
    /\ report' = [report EXCEPT ![c] = ReportIdle]
    /\ UNCHANGED othersOfReport

-----------------------------------------------------------------------------
(* ObjectIO._read_part, _read_frags, _read_frag: one part and its chunk *)

\* part.chunk.frags: the kind of each fragment, data fragments first
PartLayouts == {<<"data">>, <<"data", "data">>, <<"data", "parity">>}

\* the fragments of the largest chunk
PartFrags == UNION {DOMAIN kinds : kinds \in PartLayouts}

Replicas == 1..MaxReplicas

\* what the node of a block does with read_block: it returns the data that
\* was written, returns other data, or fails
BlockBehaviours == {"ok", "tampered", "error"}

all_frags(rec) == DOMAIN rec.kinds
data_frags(rec) == {f \in all_frags(rec) : rec.kinds[f] = "data"}
parity_frags(rec) == {f \in all_frags(rec) : rec.kinds[f] = "parity"}

\* parity_frags.concat(data_frags.slice(0, data_frags.length - parity_frags.length))
verify_parity_frags(rec) ==
    parity_frags(rec) \cup
    {f \in data_frags(rec) :
        f <= Cardinality(data_frags(rec)) - Cardinality(parity_frags(rec))}

\* a _read_block that checks no digest
block_digest_checked_never(verification) == FALSE

\* _read_block: if (this._verification_mode) the digest of the data is
\* recomputed and compared
block_digest_checked(verification) == verification

\* a _read_part that retries whatever the mode
retry_allowed_any_mode(verification, n_data, n_all) == n_data # n_all

\* _read_part, the .catch of the first _read_frags: the error is thrown on
\* in verification mode and when the chunk has data fragments only
retry_allowed(verification, n_data, n_all) == ~verification /\ n_data # n_all

\* nb_native().chunk_coder in 'dec' mode: the chunk is decoded when as many
\* of the fragments given hold the data that was written as the chunk has
\* data fragments
decodes(rec) ==
    Cardinality({f \in rec.frags : rec.fdata[f] = "ok"})
        >= Cardinality(data_frags(rec))

\* a part whose chunk has the fragments of kinds, each with MaxReplicas
\* blocks that behave as given
PartOf(verification, kinds, behave) ==
    [verification |-> verification, kinds |-> kinds, behave |-> behave,
     pc |-> "idle", err |-> "none", attempts |-> <<>>, fails |-> <<>>,
     frags |-> {}, chunk_data |-> "none",
     fdata |-> [f \in DOMAIN kinds |-> "none"],
     fpc |-> [f \in DOMAIN kinds |-> "idle"],
     bpc |-> [f \in DOMAIN kinds |-> [b \in Replicas |-> "idle"]],
     berr |-> [f \in DOMAIN kinds |-> [b \in Replicas |-> "none"]],
     read_log |-> {}, returned |-> {}, reported |-> {}]

PartNew ==
    part = PartOf(FALSE, <<"data">>, [f \in {1} |-> [b \in Replicas |-> "ok"]])

othersOfPart == <<splitVars, ioVars, stress, reader, pipe, cache, fan,
                  blocks, report, asm, slice>>

\* a _read_frag that reads every block at once in either mode
FirstBlocks_all(rec) == Replicas

\* the blocks _read_frag reads at once: all of them in verification mode,
\* the first one otherwise
FirstBlocks(rec) == IF rec.verification THEN Replicas ELSE {1}

\* _read_frags(params, part, frags): chunk.data = undefined,
\* chunk.frags = frags, and _read_frag on each of them, which returns at
\* once for a fragment that has data
ReadFrags(rec, stage, frags) ==
    LET starts == {f \in frags : rec.fdata[f] = "none" /\ rec.fpc[f] # "reading"}
    IN  [rec EXCEPT
            !.pc = stage,
            !.attempts = Append(@, stage),
            !.frags = frags,
            !.chunk_data = "none",
            !.fpc = [f \in DOMAIN rec.kinds |->
                        IF f \in starts THEN "reading"
                        ELSE IF f \in frags /\ rec.fdata[f] # "none" THEN "resolved"
                        ELSE rec.fpc[f]],
            !.bpc = [f \in DOMAIN rec.kinds |->
                        IF f \in starts
                        THEN [b \in Replicas |->
                                IF b \in FirstBlocks(rec) THEN "read" ELSE "idle"]
                        ELSE rec.bpc[f]],
            !.read_log = @ \cup (starts \X FirstBlocks(rec))]

\* _read_part(params, part): the data fragments are read first
ReadPart ==
    /\ part.pc = "idle"
    /\ part' = ReadFrags(part, "data", data_frags(part))
    /\ UNCHANGED othersOfPart

\* a _read_frags of _read_part rejected with err: the first one is retried
\* with all the fragments if that is allowed, and any other fails the part
FragsRejected(rec, err) ==
    LET failed == [rec EXCEPT !.fails = Append(@, rec.pc)]
    IN  IF /\ rec.pc = "data"
           /\ retry_allowed(rec.verification, Cardinality(data_frags(rec)),
                            Cardinality(all_frags(rec)))
        THEN ReadFrags(failed, "all", all_frags(rec))
        ELSE [failed EXCEPT !.pc = "failed", !.err = err]

\* the error the read of block b of fragment f ends with, "none" if it
\* ends well with the buffer
BlockError(rec, f, b, buffer) ==
    IF rec.behave[f][b] = "error" THEN "BLOCK_FAILED"
    ELSE IF rec.behave[f][b] = "tampered" /\ block_digest_checked(rec.verification)
    THEN "TAMPERING"
    ELSE IF rec.verification /\ rec.fdata[f] \notin {"none", buffer}
    THEN "INCONSISTENT"
    ELSE "none"

\* _read_block of block b of fragment f settles. An error goes to
\* _report_error_on_object_read, which sends the report; a buffer becomes
\* frag.data
BlockReadEnd(f, b) ==
    /\ f \in all_frags(part)
    /\ part.bpc[f][b] = "read"
    /\ LET buffer == IF part.behave[f][b] = "tampered" THEN "bad" ELSE "ok"
           err == BlockError(part, f, b, buffer)
           got == [part EXCEPT !.bpc[f][b] = "ok", !.fdata[f] = buffer,
                               !.returned = @ \cup {<<f, b>>}]
       IN  part' =
            IF err # "none"
            THEN [part EXCEPT !.bpc[f][b] = "report", !.berr[f][b] = err,
                              !.reported = @ \cup {<<f, b, err>>},
                              !.returned = IF part.behave[f][b] = "error"
                                           THEN @ ELSE @ \cup {<<f, b>>}]
            ELSE IF part.verification
                    /\ \E c \in Replicas : c # b /\ part.bpc[f][c] # "ok"
            THEN got
            ELSE [got EXCEPT !.fpc[f] = IF @ = "reading" THEN "resolved" ELSE @]
    /\ UNCHANGED othersOfPart

\* _report_error_on_object_read of block b of fragment f settles: it rejects.
\* Outside verification mode the next block is read, and the fragment
\* resolves without data after the last one; in verification mode the
\* fragment rejects, and with it the _read_frags that waits for it
BlockReportEnd(f, b, rpc_ok) ==
    /\ f \in all_frags(part)
    /\ part.bpc[f][b] = "report"
    /\ LET settled == report_read_settled(part.berr[f][b], rpc_ok)
           rec == [part EXCEPT !.bpc[f][b] = "failed"]
       IN  part' =
            IF ~part.verification
            THEN IF b < MaxReplicas
                 THEN [rec EXCEPT !.bpc[f][b + 1] = "read",
                                  !.read_log = @ \cup {<<f, b + 1>>}]
                 ELSE [rec EXCEPT !.fpc[f] = "resolved"]
            ELSE IF part.fpc[f] # "reading" THEN rec
            ELSE IF part.pc \in {"data", "all", "verify"}
                    /\ f \in part.frags
                    /\ \A g \in part.frags : part.fpc[g] # "rejected"
            THEN FragsRejected([rec EXCEPT !.fpc[f] = "rejected"], settled.err)
            ELSE [rec EXCEPT !.fpc[f] = "rejected"]
    /\ UNCHANGED othersOfPart

\* every _read_frag of the running _read_frags has resolved: the chunk is
\* decoded. In verification mode a decoded chunk is decoded once more from
\* the parity fragments and compared
FragsResolved ==
    /\ part.pc \in {"data", "all", "verify"}
    /\ \A f \in part.frags : part.fpc[f] = "resolved"
    /\ part' =
        IF ~decodes(part) THEN FragsRejected(part, "DECODE_FAILED")
        ELSE IF part.verification /\ part.pc # "verify"
        THEN ReadFrags(part, "verify", verify_parity_frags(part))
        ELSE [part EXCEPT !.pc = "done", !.chunk_data = "ok"]
    /\ UNCHANGED othersOfPart

-----------------------------------------------------------------------------
(* ObjectIO._read_block: the two block-read semaphores *)

\* config.IO_READ_CONCURRENCY_GLOBAL and config.IO_READ_CONCURRENCY_AGENT,
\* scaled down
IO_READ_CONCURRENCY_GLOBAL == 2
IO_READ_CONCURRENCY_AGENT == 1

BlockReads == 1..NumBlockReads
Nodes == 1..NumNodes

\* a global semaphore one wider than the cap
block_read_sem_global_wide == IO_READ_CONCURRENCY_GLOBAL + 1

\* new Semaphore(config.IO_READ_CONCURRENCY_GLOBAL)
block_read_sem_global == IO_READ_CONCURRENCY_GLOBAL

\* new KeysSemaphore(config.IO_READ_CONCURRENCY_AGENT)
block_read_sem_agent == IO_READ_CONCURRENCY_AGENT

\* the calls and nodes of the specification with fairness
NumFairReads == 3
NumFairNodes == 2

\* how the function surrounded by the two semaphores can settle
BlockOutcomes == {"ok", "injected", "error", "timeout"}

\* a surround that gives its slot back only when the function resolved
surround_settled_ok_only(value, outcome) ==
    IF outcome = "ok" THEN value + 1 ELSE value

\* Semaphore.surround, KeysSemaphore.surround_key: the value once the
\* surrounded function has settled, resolved or rejected
surround_settled(value, outcome) == value + 1

\* no _read_block yet; sem_global is the value of _block_read_sem_global and
\* sem_agent[n] the value of _block_read_sem_agent for the key of node n
BlocksNew ==
    blocks = [calls |-> [c \in BlockReads |-> [pc |-> "idle", node |-> 1]],
              sem_global |-> block_read_sem_global,
              sem_agent |-> [n \in Nodes |-> block_read_sem_agent]]

othersOfBlocks == <<splitVars, ioVars, stress, reader, pipe, cache, fan,
                    part, report, asm, slice>>

\* the calls are taken in order
NextBlockRead(c) ==
    /\ blocks.calls[c].pc = "idle"
    /\ \A d \in BlockReads : d < c => blocks.calls[d].pc # "idle"

\* _read_block(params, block_md) with block_md.node = node: surround_key
\* queues the call on the semaphore of the node
ReadBlock(c, node) ==
    /\ NextBlockRead(c)
    /\ blocks' = [blocks EXCEPT !.calls[c] = [pc |-> "wait_agent", node |-> node]]
    /\ UNCHANGED othersOfBlocks

\* the semaphore of the node admits the call, which queues on the global one
AgentAdmit(c) ==
    /\ blocks.calls[c].pc = "wait_agent"
    /\ blocks.sem_agent[blocks.calls[c].node] > 0
    /\ blocks' = [blocks EXCEPT !.calls[c].pc = "wait_global",
                                !.sem_agent[blocks.calls[c].node] = @ - 1]
    /\ UNCHANGED othersOfBlocks

\* the global semaphore admits the call. _error_injection_on_read may throw
\* here; otherwise block_store_client.read_block is sent
GlobalAdmit(c, injected) ==
    /\ blocks.calls[c].pc = "wait_global"
    /\ blocks.sem_global > 0
    /\ blocks' =
        IF injected
        THEN [blocks EXCEPT !.calls[c].pc = "done",
                            !.sem_global = surround_settled(@ - 1, "injected"),
                            !.sem_agent[blocks.calls[c].node] =
                                surround_settled(@, "injected")]
        ELSE [blocks EXCEPT !.calls[c].pc = "read_block",
                            !.sem_global = @ - 1]
    /\ UNCHANGED othersOfBlocks

\* read_block replies, fails or times out: both semaphores are released
ReadBlockEnd(c, outcome) ==
    /\ blocks.calls[c].pc = "read_block"
    /\ blocks' = [blocks EXCEPT !.calls[c].pc = "done",
                                !.sem_global = surround_settled(@, outcome),
                                !.sem_agent[blocks.calls[c].node] =
                                    surround_settled(@, outcome)]
    /\ UNCHANGED othersOfBlocks

-----------------------------------------------------------------------------
(* ObjectIO._init_read_cache: make_val *)

\* range_utils.intersection(start1, end1, start2, end2): the overlap of two
\* ranges, none when it is empty
intersection(start1, end1, start2, end2) ==
    LET start == IF start1 > start2 THEN start1 ELSE start2
        end == IF end1 < end2 THEN end1 ELSE end2
    IN  [none |-> end <= start, start |-> start, end |-> end]

\* Buffer.slice(from, to) with 0 <= from: both ends are cut at the length
BufferSlice(bytes, from, to) ==
    SubSeq(bytes, Min2(from, Len(bytes)) + 1, Min2(to, Len(bytes)))

\* the bytes [from, from + len) of the object; a byte is written as its
\* offset in the object
ObjectBytes(from, len) == [i \in 1..len |-> from + i - 1]

\* a value that is no buffer, and the value that is the buffer of bytes
NoBuffer == [null |-> TRUE, bytes |-> <<>>]
BufferOf(bytes) == [null |-> FALSE, bytes |-> bytes]

\* an offset that is not taken relative to the aligned window
slice_offset_absolute(pos, aligned_start) == pos

\* inter.start - start and inter.end - start
slice_offset(pos, aligned_start) == pos - aligned_start

\* make_val(data, params) with data.buffer = buffer
make_val(buffer, params) ==
    IF buffer.null THEN NoBuffer
    ELSE LET start == align_down(params.start, IO_OBJECT_RANGE_ALIGN)
             end == start + IO_OBJECT_RANGE_ALIGN
             inter == intersection(start, end, params.start, params.end)
         IN  IF inter.none THEN NoBuffer
             ELSE BufferOf(BufferSlice(buffer.bytes,
                                       slice_offset(inter.start, start),
                                       slice_offset(inter.end, start)))

\* the buffers the cache may hold for the aligned window that contains
\* start: none, or the bytes of the window that the object has
CachedBuffers(start) ==
    {NoBuffer} \cup
    {BufferOf(ObjectBytes(align_down(start, IO_OBJECT_RANGE_ALIGN), len)) :
        len \in 0..IO_OBJECT_RANGE_ALIGN}

\* the calls of make_val
\* a call with its arguments
SliceCall(start, end, buffer) ==
    [start |-> start, end |-> end, buffer |-> buffer,
     pc |-> "called", val |-> NoBuffer]

SliceCalls ==
    UNION {{SliceCall(start, end, buffer) :
                end \in 0..MaxOff, buffer \in CachedBuffers(start)} :
           start \in 0..MaxOff}

SliceNew == slice = SliceCall(0, 0, NoBuffer)

othersOfSlice == <<splitVars, ioVars, stress, reader, pipe, cache, fan,
                   part, blocks, report, asm>>

\* make_val returns
MakeVal ==
    /\ slice.pc = "called"
    /\ slice' = [slice EXCEPT !.pc = "returned",
                              !.val = make_val(slice.buffer, slice)]
    /\ UNCHANGED othersOfSlice


-----------------------------------------------------------------------------
(* combine_parts_buffers_in_range *)

\* a byte of a chunk that belongs to no offset of the part
Junk == 0 - 1

\* a part [start, end) of the object: its chunk data begins chunk_offset
\* bytes before the part and lacks the last `short` bytes of it
AsmPart(start, end, chunk_offset, short) ==
    [start |-> start, end |-> end, chunk_offset |-> chunk_offset,
     data |-> [i \in 1..chunk_offset |-> Junk]
                \o ObjectBytes(start, end - start - short)]

\* the part lists of up to n parts, all with the same chunk_offset
RECURSIVE AsmPartLists(_, _)
AsmPartLists(n, chunk_offset) ==
    IF n = 0 THEN {<<>>}
    ELSE LET shorter == AsmPartLists(n - 1, chunk_offset)
         IN  shorter \cup
             {Append(parts, AsmPart(range[1], range[2], chunk_offset, short)) :
                parts \in {ps \in shorter : Len(ps) = n - 1},
                range \in {x \in (0..MaxAsmOff) \X (0..MaxAsmOff) : x[1] < x[2]},
                short \in {0, 1}}

\* a length test that accepts whatever was joined
asm_length_ok_always(len, start, end) == TRUE

\* buffer.length !== end - start throws 'short buffer from parts'
asm_length_ok(len, start, end) == len = end - start

\* _.forEach(parts, ...): the position reached and the bytes collected
RECURSIVE CombineLoop(_, _, _, _)
CombineLoop(parts, pos, end, bytes) ==
    IF parts = <<>> THEN [pos |-> pos, bytes |-> bytes]
    ELSE LET p == Head(parts)
             part_range == intersection(p.start, p.end, pos, end)
             buffer_start == part_range.start - p.start + p.chunk_offset
             buffer_end == part_range.end - p.start + p.chunk_offset
         IN  IF part_range.none THEN CombineLoop(Tail(parts), pos, end, bytes)
             ELSE CombineLoop(Tail(parts), part_range.end, end,
                              bytes \o BufferSlice(p.data, buffer_start, buffer_end))

\* combine_parts_buffers_in_range(parts, start, end): null, a buffer, or
\* the error thrown
combine_parts_buffers_in_range(parts, start, end) ==
    IF end <= start THEN [kind |-> "null", bytes |-> <<>>]
    ELSE IF parts = <<>> THEN [kind |-> "no parts for data", bytes |-> <<>>]
    ELSE LET r == CombineLoop(parts, start, end, <<>>)
         IN  IF r.pos # end
             THEN [kind |-> "missing parts for data", bytes |-> r.bytes]
             ELSE IF ~asm_length_ok(Len(r.bytes), start, end)
             THEN [kind |-> "short buffer from parts", bytes |-> r.bytes]
             ELSE [kind |-> "buffer", bytes |-> r.bytes]

\* a call with its arguments
AsmCall(parts, start, end) ==
    [parts |-> parts, start |-> start, end |-> end, pc |-> "called",
     res |-> [kind |-> "null", bytes |-> <<>>]]

AsmCalls ==
    {AsmCall(parts, start, end) :
        parts \in UNION {AsmPartLists(MaxAsmParts, chunk_offset) :
                            chunk_offset \in {0, 1}},
        start \in 0..MaxAsmOff, end \in 0..MaxAsmOff}

AsmNew == asm = AsmCall(<<>>, 0, 0)

othersOfAsm == <<splitVars, ioVars, stress, reader, pipe, cache, fan,
                 part, blocks, report, slice>>

\* combine_parts_buffers_in_range returns or throws
Combine ==
    /\ asm.pc = "called"
    /\ asm' = [asm EXCEPT
                !.pc = "returned",
                !.res = combine_parts_buffers_in_range(asm.parts, asm.start, asm.end)]
    /\ UNCHANGED othersOfAsm

-----------------------------------------------------------------------------
(* ObjectIO._init_read_cache: this._read_cache, for one cache key *)

\* the fields of object_md that validate compares
MdFields == {"obj_id", "etag", "size", "create_time"}

\* validate: the md just read against data.object_md
validate_md(object_md, snapshot) ==
    /\ object_md.obj_id = snapshot.obj_id
    /\ object_md.etag = snapshot.etag
    /\ object_md.size = snapshot.size
    /\ object_md.create_time = snapshot.create_time

\* how many overwrites produced this metadata
MdVersion(md) == md.obj_id + md.etag + md.size + md.create_time

Gets == 1..NumGets

GetIdle == [pc |-> "idle", since |-> 0, data |-> <<>>, ret |-> <<>>]

\* the object as first written, an empty cache and no get in progress.
\* item_d: the data of the cache item (the object_md snapshot stands for the
\* buffer read with it); item_p: the load in flight, "sent" until
\* read_object_mappings replied and then "read" with the snapshot it took
CacheStart ==
    [md |-> [f \in MdFields |-> 0],
     item_d |-> <<>>, item_p |-> "none", load_md |-> <<>>,
     gets |-> [g \in Gets |-> GetIdle],
     checks |-> <<>>]

CacheNew == cache = CacheStart

othersOfCache == <<splitVars, ioVars, stress, reader, pipe, fan, readVars>>

\* the object is overwritten: one of the compared fields changes
Overwrite(f) ==
    /\ MdVersion(cache.md) < MaxOverwrites
    /\ cache' = [cache EXCEPT !.md[f] = @ + 1]
    /\ UNCHANGED othersOfCache

\* get_with_cache (util/lru_cache): a get of g starts. An item that holds
\* data is validated; otherwise the get waits for the load of the item,
\* starting it unless one is in flight
CacheGet(g) ==
    /\ cache.gets[g].pc = "idle"
    /\ cache' =
        IF cache.item_d # <<>>
        THEN [cache EXCEPT !.gets[g] = [pc |-> "validate",
                                        since |-> MdVersion(cache.md),
                                        data |-> cache.item_d, ret |-> <<>>]]
        ELSE [cache EXCEPT !.gets[g] = [pc |-> "load",
                                        since |-> MdVersion(cache.md),
                                        data |-> <<>>, ret |-> <<>>],
                           !.item_p = IF @ = "none" THEN "sent" ELSE @]
    /\ UNCHANGED othersOfCache

\* read_object_md replies to the validation of g: a match returns the item's
\* data, a mismatch goes to the load of the item
ValidateReply(g) ==
    /\ cache.gets[g].pc = "validate"
    /\ LET snapshot == cache.gets[g].data[1]
           valid == validate_md(cache.md, snapshot)
           check == [fresh |-> cache.md, stored |-> snapshot, accepted |-> valid]
       IN  cache' =
            IF valid
            THEN [cache EXCEPT !.gets[g].pc = "done",
                               !.gets[g].ret = <<snapshot>>,
                               !.checks = <<check>>]
            ELSE [cache EXCEPT !.gets[g].pc = "load",
                               !.item_p = IF @ = "none" THEN "sent" ELSE @,
                               !.checks = <<check>>]
    /\ UNCHANGED othersOfCache

\* load: read_object gets the mappings, and with them the object_md that
\* becomes the snapshot of what it reads
LoadMappings ==
    /\ cache.item_p = "sent"
    /\ cache' = [cache EXCEPT !.item_p = "read", !.load_md = <<cache.md>>]
    /\ UNCHANGED othersOfCache

\* load ends: the data is stored in the item and every get that waits for
\* this load returns it
LoadEnd ==
    /\ cache.item_p = "read"
    /\ cache' = [cache EXCEPT
            !.item_d = cache.load_md,
            !.item_p = "none",
            !.load_md = <<>>,
            !.gets = [g \in Gets |->
                        IF cache.gets[g].pc = "load"
                        THEN [cache.gets[g] EXCEPT !.pc = "done",
                                                   !.ret = cache.load_md]
                        ELSE cache.gets[g]]]
    /\ UNCHANGED othersOfCache

\* the caller of g takes the value
CacheGetDone(g) ==
    /\ cache.gets[g].pc = "done"
    /\ cache' = [cache EXCEPT !.gets[g] = GetIdle]
    /\ UNCHANGED othersOfCache

-----------------------------------------------------------------------------
(* Specifications *)


ReadPathNew ==
    /\ PartNew
    /\ BlocksNew
    /\ ReportNew
    /\ AsmNew
    /\ SliceNew

RestNew ==
    /\ StressNew
    /\ ReaderNew
    /\ PipeNew
    /\ CacheNew
    /\ FanNew
    /\ ReadPathNew

SplitInit ==
    /\ cfg \in Configs
    /\ SplitterNew
    /\ IONew
    /\ RestNew

SplitNext ==
    \/ \E data \in PushData : Push(data)
    \/ Finish

SplitSpec == SplitInit /\ [][SplitNext]_vars

IOInit ==
    /\ cfg = CHOOSE c \in Configs : TRUE
    /\ SplitterNew
    /\ IONew
    /\ RestNew

IONext ==
    \E p \in Calls :
        \/ \E role \in {"upload_object", "upload_multipart"}, size \in UploadSizes,
              copy \in CopySources, has_obj_id \in BOOLEAN :
                UploadCall(p, role, size, copy, has_obj_id)
        \/ \E ok \in BOOLEAN : CreateReply(p, ok)
        \/ \E ok \in BOOLEAN : MappingsReply(p, ok)
        \/ \E ok \in BOOLEAN : FinalizeReply(p, ok)
        \/ UploadStream(p)
        \/ \E ok \in BOOLEAN : PipelineEnd(p, ok)
        \/ SemTimeout(p)
        \/ \E ok \in BOOLEAN : CompleteReply(p, ok)
        \/ \E ok \in BOOLEAN : AbortReply(p, ok)
        \/ \E requested_size \in ReadSizes : ReadPull(p, requested_size)
        \/ \E q \in Calls, requested_size \in ReadSizes :
                SourcePull(p, q, requested_size)
        \/ TailPrefetch(p)
        \/ \E ok \in BOOLEAN : ReadEnd(p, ok)

IOSpec == IOInit /\ [][IONext]_vars

StressInit ==
    /\ cfg = CHOOSE c \in Configs : TRUE
    /\ SplitterNew
    /\ IONew
    /\ stress \in {[now |-> t, last_report |-> 0, reports |-> <<>>,
                    in_flight |-> 0, report_failed |-> FALSE,
                    unhandled |-> FALSE, last |-> <<>>] : t \in StartTimes}
    /\ ReaderNew
    /\ PipeNew
    /\ CacheNew
    /\ FanNew
    /\ ReadPathNew

StressNext ==
    \/ Tick
    \/ \E source \in StressSources, code \in StressCodes :
            HandleSemaphoreErrors(source, code)
    \/ \E ok \in BOOLEAN : ReportReply(ok)

StressSpec == StressInit /\ [][StressNext]_vars

FanInit ==
    /\ cfg = CHOOSE c \in Configs : TRUE
    /\ SplitterNew
    /\ IONew
    /\ RestNew

FanNext ==
    \/ \E start \in 0..MaxOff, end \in 0..MaxOff, has_obj_id \in BOOLEAN :
            FanCall(start, end, has_obj_id)
    \/ \E i \in 1..IO_READ_RANGE_CONCURRENCY, outcome \in {"data", "empty", "fail"} :
            FanGetReply(i, outcome)
    \/ FanReturn
    \/ FanDone

FanSpec == FanInit /\ [][FanNext]_vars

ReadInit ==
    /\ cfg = CHOOSE c \in Configs : TRUE
    /\ SplitterNew
    /\ IONew
    /\ StressNew
    /\ reader \in {ReaderOf(start, end, video) :
                     start \in ReadStarts, end \in ReadEnds, video \in BOOLEAN}
    /\ PipeNew
    /\ CacheNew
    /\ FanNew
    /\ ReadPathNew

ReadNext ==
    \/ \E requested_size \in PullSizes, low_load \in BOOLEAN :
            Pull(requested_size, low_load)
    \/ Close
    \/ PullAdmit
    \/ PullTimeout
    \/ \E ok \in BOOLEAN : PullReadEnd(ok)
    \/ PrefetchDelayEnd
    \/ PrefetchAdmit
    \/ PrefetchTimeout
    \/ \E ok \in BOOLEAN : PrefetchReadEnd(ok)

ReadSpec == ReadInit /\ [][ReadNext]_vars

\* the consumer keeps reading, so the stream calls _read whenever it may;
\* a wait on the byte semaphore ends, by admission or by its timeout; and
\* the RPCs of a range read respond, so read_object_with_cache settles
ReadFairness ==
    /\ WF_vars(\E requested_size \in PullSizes, low_load \in BOOLEAN :
                    Pull(requested_size, low_load))
    /\ WF_vars(PullAdmit \/ PullTimeout)
    /\ WF_vars(\E ok \in BOOLEAN : PullReadEnd(ok))

ReadFairSpec == ReadInit /\ [][ReadNext]_vars /\ ReadFairness

PipeInit ==
    /\ cfg = CHOOSE c \in Configs : TRUE
    /\ SplitterNew
    /\ IONew
    /\ RestNew

PipeNext ==
    \/ \E chunks \in Batches : PipeEmit(chunks)
    \/ PipeSourceEnd
    \/ UploadChunksStart
    \/ \E id \in 1..MaxBatches, outcome \in {"ok", "had_errors", "throws"} :
            MapClientEnd(id, outcome)
    \/ PipeResolve
    \/ PipeReject
    \/ \E ok \in BOOLEAN : PipeCompleteReply(ok)
    \/ \E ok \in BOOLEAN : PipeAbortReply(ok)

PipeSpec == PipeInit /\ [][PipeNext]_vars

PartInit ==
    /\ cfg = CHOOSE c \in Configs : TRUE
    /\ SplitterNew
    /\ IONew
    /\ StressNew
    /\ ReaderNew
    /\ PipeNew
    /\ CacheNew
    /\ FanNew
    /\ part \in UNION {{PartOf(verification, kinds, behave) :
                            verification \in BOOLEAN,
                            behave \in [DOMAIN kinds -> [Replicas -> BlockBehaviours]]} :
                        kinds \in PartLayouts}
    /\ BlocksNew
    /\ ReportNew
    /\ AsmNew
    /\ SliceNew

PartNext ==
    \/ ReadPart
    \/ \E f \in PartFrags, b \in Replicas : BlockReadEnd(f, b)
    \/ \E f \in PartFrags, b \in Replicas, rpc_ok \in BOOLEAN : BlockReportEnd(f, b, rpc_ok)
    \/ FragsResolved

PartSpec == PartInit /\ [][PartNext]_vars

SliceInit ==
    /\ cfg = CHOOSE c \in Configs : TRUE
    /\ SplitterNew
    /\ IONew
    /\ StressNew
    /\ ReaderNew
    /\ PipeNew
    /\ CacheNew
    /\ FanNew
    /\ PartNew
    /\ BlocksNew
    /\ ReportNew
    /\ AsmNew
    /\ slice \in SliceCalls

SliceNext == MakeVal

SliceSpec == SliceInit /\ [][SliceNext]_vars

AsmInit ==
    /\ cfg = CHOOSE c \in Configs : TRUE
    /\ SplitterNew
    /\ IONew
    /\ StressNew
    /\ ReaderNew
    /\ PipeNew
    /\ CacheNew
    /\ FanNew
    /\ PartNew
    /\ BlocksNew
    /\ ReportNew
    /\ asm \in AsmCalls
    /\ SliceNew

AsmNext == Combine

AsmSpec == AsmInit /\ [][AsmNext]_vars

ReportInit ==
    /\ cfg = CHOOSE c \in Configs : TRUE
    /\ SplitterNew
    /\ IONew
    /\ RestNew

ReportNext ==
    \/ \E c \in Reports, kind \in {"read", "upload"}, err \in BlockErrors :
            ReportCall(c, kind, err)
    \/ \E c \in Reports, rpc_ok \in BOOLEAN : ReportRpcEnd(c, rpc_ok)
    \/ \E c \in Reports : ReportTaken(c)

ReportSpec == ReportInit /\ [][ReportNext]_vars

BlocksInit ==
    /\ cfg = CHOOSE c \in Configs : TRUE
    /\ SplitterNew
    /\ IONew
    /\ RestNew

BlocksNext ==
    \/ \E c \in BlockReads, node \in Nodes : ReadBlock(c, node)
    \/ \E c \in BlockReads : AgentAdmit(c)
    \/ \E c \in BlockReads, injected \in BOOLEAN : GlobalAdmit(c, injected)
    \/ \E c \in BlockReads, outcome \in BlockOutcomes \ {"injected"} :
            ReadBlockEnd(c, outcome)

BlocksSpec == BlocksInit /\ [][BlocksNext]_vars

\* the wait queues of both semaphores are first in, first out, so a call
\* that waits while slots keep coming free is admitted; and every read_block
\* that was sent returns (it replies, fails, or times out)
BlocksFairness ==
    \A c \in 1..NumFairReads :
        /\ SF_vars(AgentAdmit(c))
        /\ SF_vars(\E injected \in BOOLEAN : GlobalAdmit(c, injected))
        /\ WF_vars(\E outcome \in BlockOutcomes \ {"injected"} :
                        ReadBlockEnd(c, outcome))

\* the block reads of one part: fewer calls, to fewer nodes
BlocksFairNext ==
    \/ \E c \in 1..NumFairReads, node \in 1..NumFairNodes : ReadBlock(c, node)
    \/ \E c \in 1..NumFairReads : AgentAdmit(c)
    \/ \E c \in 1..NumFairReads, injected \in BOOLEAN : GlobalAdmit(c, injected)
    \/ \E c \in 1..NumFairReads, outcome \in BlockOutcomes \ {"injected"} :
            ReadBlockEnd(c, outcome)

BlocksFairSpec == BlocksInit /\ [][BlocksFairNext]_vars /\ BlocksFairness

CacheInit ==
    /\ cfg = CHOOSE c \in Configs : TRUE
    /\ SplitterNew
    /\ IONew
    /\ RestNew

CacheNext ==
    \/ \E f \in MdFields : Overwrite(f)
    \/ \E g \in Gets : CacheGet(g)
    \/ \E g \in Gets : ValidateReply(g)
    \/ LoadMappings
    \/ LoadEnd
    \/ \E g \in Gets : CacheGetDone(g)

CacheSpec == CacheInit /\ [][CacheNext]_vars

-----------------------------------------------------------------------------
(* Properties of the splitter *)

\* the state of a newly constructed splitter
NewSplitter ==
    [window_pos |-> 0, chunk_pos |-> 0, hash |-> {},
     window |-> Zeros(NB_RABIN_WINDOW_LEN)]

\* C1: every split point appended to the split-point list is at least
\* min_chunk and at most max_chunk, whatever buffers were pushed
SplitPointBounds ==
    \A i \in DOMAIN split_points :
        /\ cfg.min_chunk <= split_points[i]
        /\ split_points[i] <= cfg.max_chunk

\* C1 witness: a point the hash test declared strictly between the bounds
SplitPointBoundsWitness ==
    /\ hash_cuts > 0
    /\ \E i \in DOMAIN split_points :
          cfg.min_chunk < split_points[i] /\ split_points[i] < cfg.max_chunk

\* C2 as stated: after finish(), a non-empty residual shorter than min_chunk
\* occurs only if the whole input is shorter than min_chunk
ResidualShortOnlyIfInputShort ==
    (finished /\ chunk_pos > 0 /\ chunk_pos < cfg.min_chunk)
        => Len(stream) < cfg.min_chunk

\* C2 amended: the residual is shorter than max_chunk (and may be shorter
\* than min_chunk for an input of any length); an input shorter than
\* min_chunk yields no boundary and is the residual as a whole
ResidualBelowMax ==
    /\ 0 <= chunk_pos /\ chunk_pos < cfg.max_chunk
    /\ Len(stream) < cfg.min_chunk =>
          (split_points = <<>> /\ chunk_pos = Len(stream))

\* C2 witness: finished with a residual shorter than min_chunk although the
\* input is at least min_chunk long
ResidualBelowMaxWitness ==
    /\ finished
    /\ 0 < chunk_pos /\ chunk_pos < cfg.min_chunk
    /\ Len(stream) >= cfg.min_chunk
    /\ split_points # <<>>

\* the chunks the split points cut the stream into, from offset off
RECURSIVE ChunksOf(_, _, _)
ChunksOf(s, points, off) ==
    IF points = <<>> THEN <<>>
    ELSE <<SubSeq(s, off + 1, off + Head(points))>>
             \o ChunksOf(s, Tail(points), off + Head(points))

RECURSIVE Concat(_)
Concat(ss) == IF ss = <<>> THEN <<>> ELSE Head(ss) \o Concat(Tail(ss))

\* C3: the split points and the residual account for every byte pushed:
\* their sum is the stream length, and the chunks they delimit, in order,
\* followed by the residual bytes, are exactly the stream
SplitCoverage ==
    LET sum == SumSeq(split_points)
    IN  /\ sum + chunk_pos = Len(stream)
        /\ \A i \in DOMAIN split_points : split_points[i] > 0
        /\ Concat(ChunksOf(stream, split_points, 0))
              \o SubSeq(stream, sum + 1, sum + chunk_pos) = stream

\* C3 witness: two chunks emitted and a non-empty residual
SplitCoverageWitness ==
    Len(split_points) >= 2 /\ chunk_pos > 0

\* C4: however the stream was cut into push() buffers, the split points and
\* the scan state are those of one push of the whole stream
SplitDeterminism ==
    LET one == push_loop(NewSplitter, <<>>, stream, 0, FALSE, 0)
    IN  /\ split_points = one.points
        /\ chunk_pos = one.st.chunk_pos
        /\ hash = one.st.hash
        /\ window_pos = one.st.window_pos
        /\ window = one.st.window

\* C4 witness: a boundary declared by a hash computed across two pushes
SplitDeterminismWitness ==
    carried /\ split_points # <<>>

\* the boundary rule, byte by byte: pos bytes of the current chunk are
\* consumed, the bytes past the first min_chunk of a chunk are hashed.
\* strict: the hash test needs pos > min_chunk, else pos >= min_chunk
RECURSIVE RuleWalk(_, _, _, _, _, _, _)
RuleWalk(s, pos, h, w, wp, points, strict) ==
    IF s = <<>> THEN [points |-> points, residual |-> pos]
    ELSE LET hashed == pos >= cfg.min_chunk
             h2 == IF hashed THEN RabinUpdate(h, Head(s), w[wp + 1]) ELSE h
             w2 == IF hashed THEN [w EXCEPT ![wp + 1] = Head(s)] ELSE w
             wp2 == IF hashed THEN (wp + 1) % NB_RABIN_WINDOW_LEN ELSE wp
             p == pos + 1
             masked == \A b \in 0..(cfg.avg_chunk_bits - 1) : b \in h2
             cut == \/ p = cfg.max_chunk
                    \/ masked /\ (IF strict THEN p > cfg.min_chunk
                                   ELSE p >= cfg.min_chunk)
         IN  IF cut
             THEN RuleWalk(Tail(s), 0, {}, Zeros(NB_RABIN_WINDOW_LEN), 0,
                           Append(points, p), strict)
             ELSE RuleWalk(Tail(s), p, h2, w2, wp2, points, strict)

\* C5 as stated: a boundary is declared at p exactly when p >= min_chunk and
\* the masked hash equals the mask or p = max_chunk, also at p = min_chunk
BoundaryRuleAtMin ==
    LET r == RuleWalk(stream, 0, {}, Zeros(NB_RABIN_WINDOW_LEN), 0, <<>>, FALSE)
    IN  split_points = r.points /\ chunk_pos = r.residual

\* C5 amended: a boundary is declared at p exactly when p = max_chunk, or
\* p > min_chunk and the masked hash equals the mask: the hash is first
\* tested at p = min_chunk + 1
BoundaryRulePastMin ==
    LET r == RuleWalk(stream, 0, {}, Zeros(NB_RABIN_WINDOW_LEN), 0, <<>>, TRUE)
    IN  split_points = r.points /\ chunk_pos = r.residual

\* C5 witness: with avg_chunk_bits = 0 a chunk of min_chunk + 1 bytes, and
\* the next chunk past min_chunk
BoundaryRuleWitness ==
    /\ cfg.avg_chunk_bits = 0
    /\ cfg.min_chunk < cfg.max_chunk
    /\ split_points # <<>>
    /\ split_points[1] = cfg.min_chunk + 1
    /\ chunk_pos = cfg.min_chunk

\* C6: while no hash test matched, every split point is exactly max_chunk
\* and only the residual is shorter
NoMatchAllMax ==
    hash_cuts = 0 =>
        /\ \A i \in DOMAIN split_points : split_points[i] = cfg.max_chunk
        /\ Len(split_points) = Len(stream) \div cfg.max_chunk
        /\ chunk_pos = Len(stream) % cfg.max_chunk

\* C6 witness: bytes were hashed, none matched, a max_chunk point and a tail
NoMatchAllMaxWitness ==
    /\ hash_cuts = 0
    /\ cfg.min_chunk < cfg.max_chunk
    /\ NonZeroCount(stream) > 0
    /\ split_points # <<>>
    /\ chunk_pos > cfg.min_chunk

\* C27: finish() appends no split point and leaves _chunk_pos, _hash,
\* _window_pos and the window as they are, so the residual stays the final
\* chunk; a push of no bytes appends no split point and leaves that state
\* as it is
FinishEmitsNothing ==
    /\ [](LET r == push_loop(SplitterState, split_points, <<>>, hash_cuts,
                             carried, 0)
          IN  r.points = split_points /\ r.st = SplitterState)
    /\ [][(~finished /\ finished') =>
            /\ split_points' = split_points
            /\ chunk_pos' = chunk_pos
            /\ hash' = hash
            /\ window_pos' = window_pos
            /\ window' = window
            /\ SumSeq(split_points') + chunk_pos' = Len(stream')]_vars

\* finish() was called after a boundary, on a residual whose bytes past
\* min_chunk left a hash and a window position
FinishEmitsNothingWitness ==
    /\ finished
    /\ split_points # <<>>
    /\ chunk_pos > cfg.min_chunk
    /\ hash # {}
    /\ window_pos > 0

\* C28: a call of _next_point that finds a boundary leaves the window all
\* zeros, _window_pos 0 and _hash 0; while the current chunk holds at most
\* min_chunk bytes nothing of it has been hashed; and each chunk ends where
\* a new splitter puts its first boundary when it is given the chunk with
\* its first min_chunk bytes replaced by zeros, the residual giving none
BoundaryIndependence ==
    LET chunks == ChunksOf(stream, split_points, 0)
        residual == SubSeq(stream, Len(stream) - chunk_pos + 1, Len(stream))
        masked(c) == [i \in DOMAIN c |-> IF i <= cfg.min_chunk THEN 0 ELSE c[i]]
    IN  /\ \A data \in PushData :
                LET r == next_point(SplitterState, data)
                IN  r.ret => /\ r.st.window = Zeros(NB_RABIN_WINDOW_LEN)
                             /\ r.st.window_pos = 0
                             /\ r.st.hash = {}
        /\ chunk_pos <= cfg.min_chunk =>
                /\ window = Zeros(NB_RABIN_WINDOW_LEN)
                /\ window_pos = 0
                /\ hash = {}
        /\ \A i \in DOMAIN chunks :
                LET r == next_point(NewSplitter, masked(chunks[i]))
                IN  r.ret /\ r.st.chunk_pos = Len(chunks[i]) /\ r.rest = <<>>
        /\ ~next_point(NewSplitter, masked(residual)).ret

\* a second boundary declared by the hash test, after a first chunk whose
\* hashed bytes were not all zero
BoundaryIndependenceWitness ==
    /\ hash_cuts >= 2
    /\ Len(split_points) >= 2
    /\ \E i \in 1..split_points[1] : i > cfg.min_chunk /\ stream[i] # 0
    /\ split_points[2] > cfg.min_chunk

-----------------------------------------------------------------------------
(* Properties of the upload flow and of the stream byte semaphore *)

Uploads == {"upload_object", "upload_multipart"}

\* the bytes the calls hold from the stream byte semaphore
RECURSIVE HeldUpTo(_)
HeldUpTo(n) == IF n = 0 THEN 0 ELSE op[n].held + HeldUpTo(n - 1)

Reserved == HeldUpTo(NumCalls)

\* C7: when upload_object has ended, abort_object_upload was attempted
\* exactly once if and only if a step failed after create_object_upload
\* succeeded, never on success, and the error thrown is the first failure
UploadObjectAbortProtocol ==
    \A p \in Calls :
        (op[p].role = "upload_object" /\ op[p].pc = "done") =>
            /\ op[p].aborts <= 1
            /\ (op[p].aborts = 1) <=> (op[p].err # "none" /\ op[p].created)
            /\ op[p].thrown = op[p].err

\* C8 as stated: an upload_multipart that failed after create_multipart
\* succeeded has issued an abort RPC and throws the first failure
MultipartAbortOnFailure ==
    \A p \in Calls :
        (op[p].role = "upload_multipart" /\ op[p].pc = "done"
            /\ op[p].created /\ op[p].err # "none") =>
                op[p].aborts >= 1 /\ op[p].thrown = op[p].err

\* C8: upload_multipart never issues an abort RPC; when it fails it throws
\* the first failure
MultipartNoAbort ==
    \A p \in Calls :
        op[p].role = "upload_multipart" =>
            /\ op[p].aborts = 0
            /\ op[p].pc # "abort"
            /\ op[p].pc = "done" => op[p].thrown = op[p].err

\* a multipart upload failed after create_multipart succeeded and ended
\* with no abort RPC
MultipartNoAbortWitness ==
    \E p \in Calls :
        /\ op[p].role = "upload_multipart"
        /\ op[p].pc = "done"
        /\ op[p].created
        /\ op[p].err \in {"PIPELINE_FAILED", "COMPLETE_FAILED"}
        /\ op[p].thrown = op[p].err
        /\ op[p].aborts = 0

\* C9: the bytes reserved from the stream byte semaphore by uploads, read
\* pulls and tail prefetches together never exceed IO_SEMAPHORE_CAP
BoundedMemory == Reserved <= IO_SEMAPHORE_CAP

\* an upload that declared more than the cap holds its reservation next to
\* another holder, and the semaphore is exhausted
BoundedMemoryWitness ==
    /\ Reserved = IO_SEMAPHORE_CAP
    /\ \E p, q \in Calls :
        /\ p # q
        /\ op[p].role \in Uploads
        /\ op[p].pc = "surrounded"
        /\ isNumber(op[p].size)
        /\ op[p].size[1] > IO_SEMAPHORE_CAP
        /\ op[q].role \in {"read", "prefetch"}
        /\ op[q].held > 0

\* C10: an upload runs its pipeline holding min(size, size cap) bytes, or
\* the minimal size lock when the size is not a number; it holds nothing
\* before or after the pipeline; what was released is what was reserved
UploadAdmission ==
    /\ \A p \in Calls :
        op[p].role \in Uploads =>
            IF op[p].pc = "surrounded"
            THEN op[p].held =
                    IF op[p].size = <<>> THEN IO_STREAM_MINIMAL_SIZE_LOCK
                    ELSE IF op[p].size[1] < IO_STREAM_SEMAPHORE_SIZE_CAP
                         THEN op[p].size[1]
                         ELSE IO_STREAM_SEMAPHORE_SIZE_CAP
            ELSE op[p].held = 0
    /\ sem_value + Reserved = IO_SEMAPHORE_CAP

\* one upload's pipeline ended well and another's failed, and all the bytes
\* are back in the semaphore
UploadAdmissionWitness ==
    /\ sem_value = IO_SEMAPHORE_CAP
    /\ \E p, q \in Calls :
        /\ op[p].role \in Uploads
        /\ op[p].pc = "complete"
        /\ op[q].role \in Uploads
        /\ op[q].pc = "done"
        /\ op[q].err = "PIPELINE_FAILED"

\* the calls the byte semaphore has admitted and that still run
Admitted == {p \in Calls : op[p].pc = "surrounded"}

\* C37: at no time is every admitted call a streamed copy whose source pull
\* waits on the byte semaphore: some admitted call can go on without a
\* timeout of the semaphore
StreamedCopyProgress ==
    Admitted # {} =>
        \E p \in Admitted :
            ~(StreamsCopy(p) /\ \E r \in SourcePulls(p) : op[r].pc = "sem_wait")

-----------------------------------------------------------------------------
(* Properties of the STRESS report *)

\* C11: a timeout sends a STRESS report exactly when no report was sent
\* before or the last one is at least an hour old, so any two reports are
\* at least an hour apart; the timeout error is thrown either way, and a
\* failed report call is swallowed
StressReportRateLimit ==
    /\ \A i, j \in DOMAIN stress.reports :
            i < j => stress.reports[j] - stress.reports[i] >= HOUR_IN_MILI
    /\ \A k \in DOMAIN stress.last :
        LET l == stress.last[k]
        IN  l.code = "OBJECT_IO_STREAM_ITEM_TIMEOUT" =>
                /\ l.thrown = "OBJECT_IO_STREAM_ITEM_TIMEOUT"
                /\ l.reported <=>
                     \/ l.before = <<>>
                     \/ l.at - l.before[Len(l.before)] >= HOUR_IN_MILI
    /\ ~stress.unhandled

\* two reports were sent, one of them failed, and the last timeout came
\* within the hour and sent none
StressReportRateLimitWitness ==
    /\ Len(stress.reports) >= 2
    /\ stress.report_failed
    /\ \E k \in DOMAIN stress.last :
        /\ stress.last[k].code = "OBJECT_IO_STREAM_ITEM_TIMEOUT"
        /\ ~stress.last[k].reported
        /\ stress.last[k].thrown = "OBJECT_IO_STREAM_ITEM_TIMEOUT"

-----------------------------------------------------------------------------
(* Properties of read_object_with_cache *)

\* C19: a call dispatches at most IO_READ_RANGE_CONCURRENCY cache gets; the
\* sub-ranges are non-empty, contiguous from params.start, each inside one
\* aligned window and none past params.end; an empty range dispatches
\* nothing and returns null
RangeFanOut ==
    LET rs == fan.ranges
    IN  /\ Len(rs) <= IO_READ_RANGE_CONCURRENCY
        /\ \A i \in DOMAIN rs :
            /\ rs[i].start < rs[i].end
            /\ rs[i].start = IF i = 1 THEN fan.start ELSE rs[i - 1].end
            /\ rs[i].start \div IO_OBJECT_RANGE_ALIGN
                    = (rs[i].end - 1) \div IO_OBJECT_RANGE_ALIGN
            /\ rs[i].end <= fan.end
        /\ (fan.pc # "idle" /\ fan.end <= fan.start /\ fan.result # "error") =>
                rs = <<>> /\ fan.pc = "done" /\ fan.result = "null"

\* a call that asks for more windows than the concurrency allows has
\* dispatched its sub-ranges, the first one starting off the alignment
RangeFanOutWitness ==
    /\ fan.pc = "waiting"
    /\ Len(fan.ranges) = IO_READ_RANGE_CONCURRENCY
    /\ fan.start % IO_OBJECT_RANGE_ALIGN # 0
    /\ fan.ranges[Len(fan.ranges)].end < fan.end

-----------------------------------------------------------------------------
(* Properties of the reader *)

\* C34: the buffers one read_object_with_cache call returns are contiguous
\* from params.start: the first is that of the sub-range at params.start
\* and each other one is that of the sub-range right after the one before
ReadContiguity ==
    (fan.pc = "done" /\ fan.result = "buffers") =>
        \A i \in DOMAIN fan.returned :
            fan.returned[i].start =
                IF i = 1 THEN fan.start ELSE fan.returned[i - 1].end

ReadTimeoutVisible ==
    reader.timeouts > 0 =>
        \E i \in DOMAIN reader.errors :
            reader.errors[i] = "OBJECT_IO_STREAM_ITEM_TIMEOUT"

\* a tail prefetch of the reader settles in this step
PrefetchSettles ==
    reader'.pf_delay + reader'.pf_wait + reader'.pf_read
        < reader.pf_delay + reader.pf_wait + reader.pf_read

\* C32: a tail prefetch is under way only for a reader that starts at 0 on
\* a large video object, and the step in which a prefetch settles emits no
\* 'error', pushes neither data nor EOF and raises no unhandled failure
PrefetchIsolation ==
    /\ [](reader.pf_delay + reader.pf_wait + reader.pf_read > 0 =>
            reader.start = 0 /\ reader.video)
    /\ [][PrefetchSettles =>
            /\ reader'.errors = reader.errors
            /\ reader'.pushed = reader.pushed
            /\ reader'.ended = reader.ended
            /\ reader'.unhandled = reader.unhandled]_vars

\* C35: a reader dispatches the tail prefetch at most once in its life,
\* so at no time is more than one tail prefetch of the reader under way
SingleTailPrefetch == reader.pf_delay + reader.pf_wait + reader.pf_read <= 1

\* the end of what the reader may deliver: reader.end or the object's size
ReadLimit ==
    IF reader.end = <<>> THEN ReadObjSize ELSE Min2(reader.end[1], ReadObjSize)

\* C38: a reader that keeps being pulled ends or emits an error. The range
\* read of a pull that resolves either advances reader.pos or pushes EOF,
\* and it pushes EOF when reader.pos has reached reader.end or the size of
\* the object; so in the end the reader has pushed EOF or emitted 'error'
ReadTermination ==
    /\ [][(reader.pc = "reading" /\ reader'.pc = "idle"
                /\ reader'.failures = reader.failures) =>
            /\ reader'.pos > reader.pos \/ reader'.ended
            /\ reader.pos >= ReadLimit => reader'.ended]_vars
    /\ [](reader.pos <= ReadLimit \/ reader.pos = reader.start)
    /\ <>(reader.ended \/ reader.errors # <<>>)

Range(seq) == {seq[i] : i \in DOMAIN seq}

\* C21: a pull of a closed reader pushes EOF and nothing else, and leaves
\* the byte semaphore, the range reads and the tail prefetches as they
\* were; no buffer that was queued in reader.pending when close() was
\* called, or is queued there when the stream has ended, is ever pushed
ReadCancellation ==
    /\ [](reader.closed =>
            /\ Range(reader.closed_pending) \cap Range(reader.pushed) = {}
            /\ reader.ended =>
                    Range(reader.pending) \cap Range(reader.pushed) = {})
    /\ [][(reader.closed /\ reader'.pulls = reader.pulls + 1) =>
            /\ reader'.ended
            /\ reader'.pushed = reader.pushed
            /\ reader'.pending = reader.pending
            /\ reader'.pc = reader.pc /\ reader.pc = "idle"
            /\ reader'.req = <<>>
            /\ reader'.pf_delay = reader.pf_delay
            /\ reader'.pf_wait = reader.pf_wait
            /\ reader'.pf_read = reader.pf_read]_vars

\* a reader was closed with a buffer queued, and the pull that followed
\* ended the stream with the buffer still queued
ReadCancellationWitness ==
    /\ reader.closed
    /\ reader.closed_pending # <<>>
    /\ reader.ended
    /\ reader.pending = reader.closed_pending

-----------------------------------------------------------------------------
(* Properties of the part read *)

\* the block b of fragment f returned data that is not the data written
ReturnedTampered(f, b) ==
    /\ part.behave[f][b] = "tampered"
    /\ <<f, b>> \in part.returned

\* C22: in verification mode, once a block has returned data whose digest
\* differs, TAMPERING is reported for that block, no fragment takes the
\* data, the part is never read successfully and is never retried with
\* all the fragments; when the report has settled the part has failed with
\* the error of a block, which is TAMPERING unless a block read failed
VerificationTampering ==
    part.verification =>
        \A f \in all_frags(part), b \in Replicas :
            ReturnedTampered(f, b) =>
                /\ <<f, b, "TAMPERING">> \in part.reported
                /\ part.fdata[f] # "bad"
                /\ part.pc # "done"
                /\ \A i \in DOMAIN part.attempts : part.attempts[i] # "all"
                /\ part.bpc[f][b] = "failed" =>
                        /\ part.pc = "failed"
                        /\ part.err \in BlockErrors
                        /\ (\A g \in all_frags(part), c \in Replicas :
                                part.behave[g][c] # "error")
                            => part.err = "TAMPERING"

\* a verification read failed with TAMPERING for a block of a fragment
\* whose other replica returned the data written
VerificationTamperingWitness ==
    /\ part.verification
    /\ part.pc = "failed"
    /\ part.err = "TAMPERING"
    /\ \E f \in all_frags(part), b \in Replicas, c \in Replicas :
            /\ ReturnedTampered(f, b)
            /\ part.bpc[f][b] = "failed"
            /\ part.behave[f][c] = "ok"
            /\ part.bpc[f][c] = "ok"

\* C23: outside verification mode, when a block of a fragment has returned
\* tampered data and another block of the fragment is intact, the part read
\* ends well, with the fragment holding the data of an intact block that
\* was read
ReplicaFallback ==
    ~part.verification =>
        \A f \in all_frags(part), b \in Replicas :
            (/\ ReturnedTampered(f, b)
             /\ \E c \in Replicas : part.behave[f][c] = "ok"
             /\ part.pc \in {"done", "failed"})
            => /\ part.pc = "done"
               /\ part.fdata[f] = "ok"
               /\ \E c \in Replicas :
                    part.behave[f][c] = "ok" /\ <<f, c>> \in part.returned

\* C30: the first _read_frags of a part is that of the data fragments, and
\* no block of another fragment is read before a later one; the fragments
\* are read all together only as the second _read_frags, after the first
\* failed, outside verification mode and for a chunk that has a fragment
\* that is not a data fragment; when that retry fails, or the first attempt
\* fails and no retry is allowed, the part fails
PartReconstructionOrder ==
    /\ part.attempts # <<>> => part.attempts[1] = "data"
    /\ part.attempts = <<"data">> =>
            /\ part.frags = data_frags(part)
            /\ \A x \in part.read_log : x[1] \in data_frags(part)
    /\ \A i \in DOMAIN part.attempts :
            part.attempts[i] = "all" =>
                /\ i = 2
                /\ part.fails # <<>> /\ part.fails[1] = "data"
                /\ ~part.verification
                /\ data_frags(part) # all_frags(part)
    /\ (\E i \in DOMAIN part.fails : part.fails[i] = "all") => part.pc = "failed"
    /\ (/\ part.fails # <<>>
        /\ part.verification \/ data_frags(part) = all_frags(part))
        => part.pc = "failed"

\* the data fragments could not be decoded and the part was read on the
\* retry with all the fragments
PartReconstructionOrderWitness ==
    /\ part.attempts = <<"data", "all">>
    /\ part.pc = "done"

-----------------------------------------------------------------------------
(* Properties of the cache slice *)

\* C29: make_val returns no buffer when the cached buffer is null or the
\* request [start, end) does not meet the aligned window of start;
\* otherwise it returns the bytes the cached buffer holds of the request
\* within the window, which sit at offset (start of the overlap - aligned
\* start) of the buffer, and never more than end - start bytes
CacheSlice ==
    slice.pc = "returned" =>
        LET aligned == align_down(slice.start, IO_OBJECT_RANGE_ALIGN)
            lo == IF slice.start > aligned THEN slice.start ELSE aligned
            hi == Min2(slice.end, aligned + IO_OBJECT_RANGE_ALIGN)
            held == Min2(hi, aligned + Len(slice.buffer.bytes))
        IN  IF slice.buffer.null \/ hi <= lo
            THEN slice.val = NoBuffer
            ELSE /\ ~slice.val.null
                 /\ slice.val.bytes =
                        ObjectBytes(lo, IF held > lo THEN held - lo ELSE 0)
                 /\ slice.val.bytes =
                        SubSeq(slice.buffer.bytes, lo - aligned + 1, held - aligned)
                 /\ Len(slice.val.bytes) <= slice.end - slice.start

\* a request that starts inside a window and ends past it got the bytes of
\* the full cached buffer from its start on
CacheSliceWitness ==
    /\ slice.pc = "returned"
    /\ slice.start > align_down(slice.start, IO_OBJECT_RANGE_ALIGN)
    /\ slice.end > align_down(slice.start, IO_OBJECT_RANGE_ALIGN) + IO_OBJECT_RANGE_ALIGN
    /\ Len(slice.buffer.bytes) = IO_OBJECT_RANGE_ALIGN
    /\ slice.val.bytes = <<slice.start>>

-----------------------------------------------------------------------------
(* Properties of the range assembly *)

\* the byte at offset o of the object is inside some part
Covered(o) == \E i \in DOMAIN asm.parts : asm.parts[i].start <= o /\ o < asm.parts[i].end

AsmThrew == asm.res.kind \notin {"null", "buffer"}

\* C26: combine_parts_buffers_in_range returns null when end <= start;
\* otherwise it returns a buffer of exactly end - start bytes, which are
\* the bytes [start, end) of the object, or throws; it throws whenever a
\* byte of [start, end) is in no part and whenever the joined length is not
\* end - start
RangeAssembly ==
    asm.pc = "returned" =>
        IF asm.end <= asm.start THEN asm.res.kind = "null"
        ELSE /\ asm.res.kind # "null"
             /\ asm.res.kind = "buffer" =>
                    /\ Len(asm.res.bytes) = asm.end - asm.start
                    /\ asm.res.bytes = ObjectBytes(asm.start, asm.end - asm.start)
             /\ (\E o \in asm.start..(asm.end - 1) : ~Covered(o)) => AsmThrew
             /\ Len(asm.res.bytes) # asm.end - asm.start => AsmThrew

\* two parts with a gap between them reached the end of the range and the
\* length test threw
RangeAssemblyWitness ==
    /\ asm.pc = "returned"
    /\ asm.res.kind = "short buffer from parts"
    /\ Len(asm.parts) = MaxAsmParts
    /\ \A i \in DOMAIN asm.parts : Len(asm.parts[i].data) =
            asm.parts[i].chunk_offset + asm.parts[i].end - asm.parts[i].start
    /\ asm.parts[1].end < asm.parts[Len(asm.parts)].start
    /\ \E o \in asm.start..(asm.end - 1) : ~Covered(o)

\* the blocks of fragment f whose read or report is under way
BlocksUnderWay(f) == {b \in Replicas : part.bpc[f][b] \in {"read", "report"}}

\* C31: outside verification mode the blocks of a fragment are read one at
\* a time and in list order: a block is requested only when the block
\* before it has failed and the report of that failure has settled; no
\* block is requested after one has returned data; and when every block
\* has failed the fragment resolves without data, it never rejects
SequentialReplicaTrial ==
    /\ [](~part.verification =>
            \A f \in all_frags(part) :
                /\ Cardinality(BlocksUnderWay(f)) <= 1
                /\ part.fpc[f] # "rejected"
                /\ \A b \in Replicas :
                    /\ (b > 1 /\ part.bpc[f][b] # "idle") =>
                            /\ part.bpc[f][b - 1] = "failed"
                            /\ <<f, b - 1, part.berr[f][b - 1]>> \in part.reported
                    /\ part.bpc[f][b] = "ok" =>
                            \A c \in Replicas : c > b => part.bpc[f][c] = "idle"
                /\ (\A b \in Replicas : part.bpc[f][b] = "failed") =>
                        part.fpc[f] = "resolved" /\ part.fdata[f] = "none")
    /\ [][~part.verification =>
            \A f \in all_frags(part), b \in Replicas :
                (b > 1 /\ part.bpc[f][b] # "read" /\ part'.bpc[f][b] = "read") =>
                    /\ part.bpc[f][b - 1] = "report"
                    /\ part'.bpc[f][b - 1] = "failed"]_vars

\* outside verification mode every block of a fragment failed, each was
\* reported, and the fragment resolved without data
SequentialReplicaTrialWitness ==
    /\ ~part.verification
    /\ \E f \in all_frags(part) :
            /\ \A b \in Replicas :
                    /\ part.bpc[f][b] = "failed"
                    /\ <<f, b, "BLOCK_FAILED">> \in part.reported
            /\ part.fpc[f] = "resolved"
            /\ part.fdata[f] = "none"

-----------------------------------------------------------------------------
(* Properties of the error reporters *)

\* C25: _report_error_on_object_read always rejects, and with the error it
\* was called with, whether the report RPC succeeded or failed;
\* _report_error_on_object_upload never throws
ReportKeepsError ==
    \A c \in Reports :
        report[c].pc = "settled" =>
            /\ report[c].kind = "read" =>
                    /\ report[c].settled.rejected
                    /\ report[c].settled.err = report[c].err
            /\ report[c].kind = "upload" => ~report[c].settled.rejected

\* a read reporter and an upload reporter have both settled after their
\* report RPC failed
ReportKeepsErrorWitness ==
    /\ \E c \in Reports :
            /\ report[c].pc = "settled" /\ report[c].kind = "read"
            /\ ~report[c].rpc_ok
    /\ \E c \in Reports :
            /\ report[c].pc = "settled" /\ report[c].kind = "upload"
            /\ ~report[c].rpc_ok

-----------------------------------------------------------------------------
(* Properties of the block reads *)

\* the read_block calls in flight, in all and to one node
InFlight == {c \in BlockReads : blocks.calls[c].pc = "read_block"}
InFlightTo(n) == {c \in InFlight : blocks.calls[c].node = n}

\* C24: at most IO_READ_CONCURRENCY_GLOBAL read_block calls are in flight,
\* and at most IO_READ_CONCURRENCY_AGENT of them to any one node
BlockReadCaps ==
    /\ Cardinality(InFlight) <= IO_READ_CONCURRENCY_GLOBAL
    /\ \A n \in Nodes : Cardinality(InFlightTo(n)) <= IO_READ_CONCURRENCY_AGENT

\* the global cap is reached while a call waits for the global semaphore
\* and another for the semaphore of a node that has a call in flight
BlockReadCapsWitness ==
    /\ Cardinality(InFlight) = IO_READ_CONCURRENCY_GLOBAL
    /\ \E c \in BlockReads : blocks.calls[c].pc = "wait_global"
    /\ \E c \in BlockReads :
            /\ blocks.calls[c].pc = "wait_agent"
            /\ InFlightTo(blocks.calls[c].node) # {}

\* the calls that hold a slot of the semaphore of node n, and of the
\* global semaphore
HoldsAgent(n) ==
    {c \in BlockReads : /\ blocks.calls[c].node = n
                        /\ blocks.calls[c].pc \in {"wait_global", "read_block"}}
HoldsGlobal == {c \in BlockReads : blocks.calls[c].pc = "read_block"}

\* C36: a _read_block takes the slot of its node first and the global slot
\* second, and gives both back however it ends: each semaphore is short of
\* its capacity by exactly the calls that hold a slot of it, a call takes
\* the global slot only while it holds the slot of its node, both are at
\* full capacity when no call holds a slot, and, every read_block that was
\* sent returning, a call that waits for a slot does end
BlockSlotDiscipline ==
    /\ [](/\ blocks.sem_global
                = block_read_sem_global - Cardinality(HoldsGlobal)
          /\ \A n \in Nodes :
                blocks.sem_agent[n]
                    = block_read_sem_agent - Cardinality(HoldsAgent(n))
          /\ (\A c \in BlockReads :
                    blocks.calls[c].pc \in {"idle", "wait_agent", "done"}) =>
                /\ blocks.sem_global = block_read_sem_global
                /\ \A n \in Nodes : blocks.sem_agent[n] = block_read_sem_agent)
    /\ [][\A c \in BlockReads :
            (c \notin HoldsGlobal /\ blocks'.calls[c].pc = "read_block") =>
                c \in HoldsAgent(blocks.calls[c].node)]_vars
    /\ \A c \in BlockReads :
            blocks.calls[c].pc \in {"wait_agent", "wait_global"}
                ~> blocks.calls[c].pc = "done"

\* every call has ended, by a reply, an injected error or a failure, after
\* one of them had waited for the slot of a busy node and another for the
\* global slot: both semaphores are back at full capacity
BlockSlotDisciplineWitness ==
    /\ \A c \in 1..NumFairReads : blocks.calls[c].pc = "done"
    /\ \E c, d \in BlockReads : c # d /\ blocks.calls[c].node = blocks.calls[d].node
    /\ blocks.sem_global = block_read_sem_global
    /\ \A n \in Nodes : blocks.sem_agent[n] = block_read_sem_agent

-----------------------------------------------------------------------------
(* Properties of the copy path *)

\* the call p is on the path that copies mappings
OnMappingsPath(p) == op[p].pc \in {"read_mappings", "finalize"}

\* C14: when create has succeeded, a copy from the same bucket without
\* ranges goes to read_object_mappings and every other upload to the stream
\* pipeline, reading the source through read_object_stream if it is a copy;
\* the mappings path holds and asks nothing from the byte semaphore, goes
\* on to finalize_object_parts and then to completion, never to the
\* pipeline, and completes with the source's metadata in complete_params
CopyPathSelection ==
    /\ [](\A p \in Calls :
            /\ OnMappingsPath(p) => op[p].held = 0 /\ op[p].count = 0
            /\ op[p].pc = "finalize" => op[p].cp_from_source
            /\ op[p].pc \in {"upload_stream", "sem_wait", "surrounded"} =>
                    ~op[p].cp_from_source)
    /\ [][\A p \in Calls :
            /\ (op[p].pc = "create" /\ op'[p].created) =>
                    IF op[p].copy = <<>>
                    THEN op'[p].pc = "upload_stream" /\ op'[p].source = "params"
                    ELSE IF ~op[p].copy[1].bucket_differs /\ ~op[p].copy[1].ranges
                    THEN op'[p].pc = "read_mappings"
                    ELSE /\ op'[p].pc = "upload_stream"
                         /\ op'[p].source = "read_object_stream"
            /\ op[p].pc = "read_mappings" =>
                    op'[p].pc \in {"read_mappings", "finalize", "abort", "done"}
            /\ op[p].pc = "finalize" =>
                    /\ op'[p].pc \in {"finalize", "complete", "abort", "done"}
                    /\ op'[p].pc = "complete" => op'[p].cp_from_source
       ]_vars

\* one copy of mappings is about to complete with the source's metadata
\* and a streamed copy runs its pipeline
CopyPathSelectionWitness ==
    \E p, q \in Calls :
        /\ op[p].pc = "complete"
        /\ op[p].cp_from_source
        /\ op[q].pc = "surrounded"
        /\ op[q].source = "read_object_stream"

-----------------------------------------------------------------------------
(* Properties of the uploader stage *)

\* C15: over all batches of the upload, the parts start at offset 0 with
\* seq 0, each part starts where the one before ended, seq grows by one per
\* part, and end - start is the size of the part's chunk
PartLayout ==
    \A i \in DOMAIN pipe.parts :
        /\ pipe.parts[i].seq = i - 1
        /\ pipe.parts[i].start = IF i = 1 THEN 0 ELSE pipe.parts[i - 1].end
        /\ pipe.parts[i].end - pipe.parts[i].start = pipe.parts[i].size

\* parts of two batches were built, the second batch continuing the first
PartLayoutWitness ==
    /\ Len(pipe.started) >= 2
    /\ Len(pipe.parts) >= 3
    /\ pipe.parts[Len(pipe.parts)].start > 0

\* the sizes of the chunks handed to _upload_chunks so far, summed
RECURSIVE PartsSize(_)
PartsSize(parts) ==
    IF parts = <<>> THEN 0 ELSE Head(parts).size + PartsSize(Tail(parts))

\* C33: whatever batches of a streamed upload were handed to _upload_chunks,
\* complete_params.size equals params.start and the summed sizes of their
\* chunks, and complete_params.num_parts equals params.seq and their number
CompletionCounters ==
    /\ pipe.cp_size = pipe.start
    /\ pipe.cp_size = PartsSize(pipe.parts)
    /\ pipe.cp_size = pipe.total
    /\ pipe.cp_num_parts = pipe.seq
    /\ pipe.cp_num_parts = Len(pipe.parts)

\* two batches went through _upload_chunks, one of them with a chunk of
\* more than one byte, and complete_object_upload was sent
CompletionCountersWitness ==
    /\ Len(pipe.started) = 2
    /\ pipe.cp_num_parts >= 3
    /\ pipe.cp_size > pipe.cp_num_parts
    /\ pipe.complete_called

\* C16: at most one map-client batch runs at a time; batches are started in
\* emission order, each only after the callback of the one before was
\* invoked, and they are finalized in that order
BatchSerialization ==
    /\ Cardinality(pipe.running) <= 1
    /\ \A i \in DOMAIN pipe.started :
        /\ pipe.started[i] = i
        /\ i > 1 => \E k \in DOMAIN pipe.callbacks :
                        pipe.callbacks[k].id = i - 1
        /\ i < Len(pipe.started) => i \notin pipe.running
    /\ \A i, j \in DOMAIN pipe.finalized :
            i < j => pipe.finalized[i] < pipe.finalized[j]

\* the second batch runs after the first was finalized
BatchSerializationWitness ==
    /\ pipe.finalized = <<1>>
    /\ pipe.running = {2}
    /\ pipe.busy

\* C17: when the map client of a batch has thrown or ended with had_errors,
\* the callback of that batch was invoked once, with an error; no later
\* batch is started; the pipeline promise does not resolve and the
\* completion RPC is not called; upload_object ends having sent the abort
\* RPC, the promise rejected
UploadMapFailure ==
    pipe.failed # <<>> =>
        LET f == pipe.failed[1]
            cbs == SelectSeq(pipe.callbacks, LAMBDA c : c.id = f)
        IN  /\ Len(pipe.failed) = 1
            /\ Len(cbs) = 1
            /\ cbs[1].err
            /\ pipe.started[Len(pipe.started)] = f
            /\ pipe.running = {}
            /\ pipe.promise # "resolved"
            /\ ~pipe.complete_called
            /\ pipe.pc \in {"pipeline", "abort", "done"}
            /\ pipe.pc # "pipeline" => pipe.promise = "rejected" /\ pipe.aborts = 1
            /\ pipe.pc = "done" => pipe.thrown = "UPLOAD_MAP_ERRORS"

\* the first batch failed while the second was queued; the upload ended
\* after one abort and the second batch never started
UploadMapFailureWitness ==
    /\ pipe.failed = <<1>>
    /\ pipe.queue # <<>>
    /\ pipe.started = <<1>>
    /\ pipe.pc = "done"
    /\ pipe.aborts = 1

-----------------------------------------------------------------------------
(* Properties of the read cache *)

\* C18: validation accepts an entry only if the metadata just read equals
\* the stored snapshot in obj_id, etag, size and create_time; and a get
\* never returns data read from an older state of the object than the one
\* it was called in
CacheCoherence ==
    /\ \A k \in DOMAIN cache.checks :
            cache.checks[k].accepted =>
                \A f \in MdFields :
                    cache.checks[k].fresh[f] = cache.checks[k].stored[f]
    /\ \A g \in Gets :
            cache.gets[g].ret # <<>> =>
                MdVersion(cache.gets[g].ret[1]) >= cache.gets[g].since

=============================================================================
